---- MODULE Spec2Model ----
(***************************************************************************)
(* A model of the string-metrics core of _levenshtein.c: the one-row       *)
(* edit-distance kernel, the set median, the sequence and set distances,   *)
(* the Munkres-Blackman assignment solver and edit-script recovery.        *)
(*                                                                         *)
(* Strings are sequences of symbols (small naturals standing for bytes).   *)
(* C arrays are functions on 0..n-1, so that every index below is the      *)
(* index the C code uses; a C string pointer read s[k] is At(s, k).        *)
(***************************************************************************)
EXTENDS Integers, Sequences, FiniteSets, TLC

(***************************************************************************)
(* Bounds of the model.                                                    *)
(***************************************************************************)
\* longest string handed to lev_edit_distance in specification Spec
MaxLen == 5

\* the byte values the bounded inputs are drawn from
Symbols == {0, 1}

\* what a freshly malloc'ed size_t cell may hold: the code never initialises
\* the tail of the row when xcost == 0, so its content is the allocator's
JunkValues == {0, 1000}

(***************************************************************************)
(* Helpers for C idioms.                                                   *)
(***************************************************************************)
\* s[k] for a C pointer s to the first symbol of the sequence s
At(s, k) == s[k + 1]

\* the sequence that starts k symbols into s and has n symbols (s + k, n)
Sub(s, k, n) == SubSeq(s, k + 1, k + n)

\* (a != b) as the C integer 0 or 1
Ne(a, b) == IF a # b THEN 1 ELSE 0

\* memchr(s, c, n) != NULL as the C integer 0 or 1
MemChr(s, c, n) == IF \E k \in 0..(n - 1) : At(s, k) = c THEN 1 ELSE 0

\* all sequences over S of length at most n
RECURSIVE SeqsUpTo(_, _)
SeqsUpTo(S, n) ==
  IF n = 0 THEN {<< >>}
  ELSE LET shorter == SeqsUpTo(S, n - 1)
       IN shorter \cup {Append(s, c) : s \in {t \in shorter : Len(t) = n - 1}, c \in S}

(***************************************************************************)
(* lev_edit_distance                                                       *)
(***************************************************************************)
\* number of symbols the "strip common prefix" loop removes
RECURSIVE CommonPrefix(_, _, _)
CommonPrefix(s1, s2, k) ==
  IF Len(s1) - k > 0 /\ Len(s2) - k > 0 /\ At(s1, k) = At(s2, k)
  THEN CommonPrefix(s1, s2, k + 1)
  ELSE k

\* number of symbols the "strip common suffix" loop removes from strings
\* whose remaining lengths are len1 and len2
RECURSIVE CommonSuffix(_, _, _, _, _)
CommonSuffix(s1, len1, s2, len2, k) ==
  IF len1 - k > 0 /\ len2 - k > 0 /\ At(s1, len1 - k - 1) = At(s2, len2 - k - 1)
  THEN CommonSuffix(s1, len1, s2, len2, k + 1)
  ELSE k

\* XCostInner changed to take the diagonal without the --D on a match
RECURSIVE XCostInner_NoDecrement(_, _, _, _, _, _, _, _)
XCostInner_NoDecrement(row, p, end, char1, string2, char2p, D, x) ==
  IF p > end THEN row
  ELSE LET hit == char1 = At(string2, char2p)
           x1  == IF hit THEN D ELSE x + 1
           D2  == row[p] + 1
           x2  == IF x1 > D2 THEN D2 ELSE x1
       IN XCostInner_NoDecrement([row EXCEPT ![p] = x2], p + 1, end, char1,
                                 string2, char2p + 1, D2, x2)

\* the inner while loop of the xcost sweep: p runs to end, char2p = p - 1
RECURSIVE XCostInner(_, _, _, _, _, _, _, _)
XCostInner(row, p, end, char1, string2, char2p, D, x) ==
  IF p > end THEN row
  ELSE LET hit == char1 = At(string2, char2p)
           x1  == IF hit THEN D - 1 ELSE x + 1
           D2  == row[p] + 1
           x2  == IF x1 > D2 THEN D2 ELSE x1
       IN XCostInner([row EXCEPT ![p] = x2], p + 1, end, char1, string2,
                     char2p + 1, D2, x2)

\* for (i = 1; i < len1; i++) of the xcost branch; len1, len2 already incremented
RECURSIVE XCostRows(_, _, _, _, _, _)
XCostRows(row, i, len1, string1, len2, string2) ==
  IF i >= len1 THEN row
  ELSE CHOOSE r \in {XCostRows(v, i + 1, len1, string1, len2, string2) :
                       v \in {XCostInner(row, 1, len2 - 1, At(string1, i - 1),
                                         string2, 0, i, i)}} : TRUE

\* the "main" while loop of the corner-skipping sweep; yields the row and the
\* values of p, char2p, D and x the sentinel step goes on with
RECURSIVE SkipInner(_, _, _, _, _, _, _, _)
SkipInner(row, p, end, char1, string2, char2p, D, x) ==
  IF p > end THEN [row |-> row, p |-> p, char2p |-> char2p, D |-> D, x |-> x]
  ELSE LET c3 == (D - 1) + Ne(char1, At(string2, char2p))
           x1 == IF x + 1 > c3 THEN c3 ELSE x + 1
           D2 == row[p] + 1
           x2 == IF x1 > D2 THEN D2 ELSE x1
       IN SkipInner([row EXCEPT ![p] = x2], p + 1, end, char1, string2,
                    char2p + 1, D2, x2)

\* one pass of for (i = 1; i < len1; i++) in the xcost == 0 branch: the row
\* and the value of end after row i of the matrix
SkipRow(row, end, i, len1, string1, len2, string2, half) ==
  LET char1 == At(string1, i - 1)
      upper == i >= len1 - half
      offset == i - (len1 - half)
      \* skip the upper triangle
      c3u == row[offset] + Ne(char1, At(string2, offset))
      xu0 == row[offset + 1] + 1
      xu  == IF xu0 > c3u THEN c3u ELSE xu0
      row1 == IF upper THEN [row EXCEPT ![offset + 1] = xu] ELSE row
      p1  == IF upper THEN offset + 2 ELSE 1
      c2p == IF upper THEN offset + 1 ELSE 0
      D1  == IF upper THEN xu0 ELSE i
      x1  == IF upper THEN xu ELSE i
      \* skip the lower triangle
      end1 == IF i <= half + 1 THEN len2 + i - half - 2 ELSE end
      m == SkipInner(row1, p1, end1, char1, string2, c2p, D1, x1)
      \* lower triangle sentinel
      c3s == (m.D - 1) + Ne(char1, At(string2, m.char2p))
      xs  == IF m.x + 1 > c3s THEN c3s ELSE m.x + 1
      row2 == IF i <= half THEN [m.row EXCEPT ![m.p] = xs] ELSE m.row
  IN [row |-> row2, end |-> end1]

RECURSIVE SkipRows(_, _, _, _, _, _, _, _)
SkipRows(row, end, i, len1, string1, len2, string2, half) ==
  IF i >= len1 THEN [row |-> row, end |-> end]
  ELSE CHOOSE s \in {SkipRows(r.row, r.end, i + 1, len1, string1, len2,
                                string2, half) :
                       r \in {SkipRow(row, end, i, len1, string1, len2,
                                      string2, half)}} : TRUE

\* EditDistanceCore changed to run the corner-skipping sweep also when
\* len1 == 1 (the memchr shortcut left out)
EditDistanceCore_NoShortcut(len1, string1, len2, string2, xc, uninit) ==
  LET l1 == len1 + 1
      l2 == len2 + 1
      half == l1 \div 2
      ninit == l2 - (IF xc # 0 THEN 0 ELSE half)
      row0 == [k \in 0..(l2 - 1) |-> IF k < ninit THEN k ELSE uninit]
  IN IF xc # 0
     THEN XCostRows(row0, 1, l1, string1, l2, string2)[l2 - 1]
     ELSE LET r == SkipRows([row0 EXCEPT ![0] = l1 - half - 1], l2 - 1, 1,
                            l1, string1, l2, string2, half)
          IN r.row[r.end]

\* the part of lev_edit_distance after the strings are stripped and swapped:
\* len1 <= len2 are the core lengths, uninit is the content of fresh memory
EditDistanceCore(len1, string1, len2, string2, xc, uninit) ==
  IF len1 = 1
  THEN IF xc # 0
       THEN len2 + 1 - 2 * MemChr(string2, At(string1, 0), len2)
       ELSE len2 - MemChr(string2, At(string1, 0), len2)
  ELSE LET l1 == len1 + 1
           l2 == len2 + 1
           half == l1 \div 2
           ninit == l2 - (IF xc # 0 THEN 0 ELSE half)
           row0 == [k \in 0..(l2 - 1) |-> IF k < ninit THEN k ELSE uninit]
       IN IF xc # 0
          THEN XCostRows(row0, 1, l1, string1, l2, string2)[l2 - 1]
          ELSE LET r == SkipRows([row0 EXCEPT ![0] = l1 - half - 1], l2 - 1, 1,
                                 l1, string1, l2, string2, half)
               IN r.row[r.end]

\* EditDistanceIn changed to lose the xcost flag when it swaps the strings
EditDistanceIn_SwapDropsXcost(s1, s2, xc, uninit) ==
  LET pre == CommonPrefix(s1, s2, 0)
      a1  == Sub(s1, pre, Len(s1) - pre)
      a2  == Sub(s2, pre, Len(s2) - pre)
      suf == CommonSuffix(a1, Len(a1), a2, Len(a2), 0)
      len1 == Len(a1) - suf
      len2 == Len(a2) - suf
      string1 == Sub(a1, 0, len1)
      string2 == Sub(a2, 0, len2)
  IN IF len1 = 0 THEN len2
     ELSE IF len2 = 0 THEN len1
     ELSE IF len1 > len2
          THEN EditDistanceCore(len2, string2, len1, string1, 0, uninit)
          ELSE EditDistanceCore(len1, string1, len2, string2, xc, uninit)

\* EditDistanceIn changed to ignore the xcost flag
EditDistanceIn_IgnoreXcost(s1, s2, xc, uninit) ==
  LET pre == CommonPrefix(s1, s2, 0)
      a1  == Sub(s1, pre, Len(s1) - pre)
      a2  == Sub(s2, pre, Len(s2) - pre)
      suf == CommonSuffix(a1, Len(a1), a2, Len(a2), 0)
      len1 == Len(a1) - suf
      len2 == Len(a2) - suf
      string1 == Sub(a1, 0, len1)
      string2 == Sub(a2, 0, len2)
  IN IF len1 = 0 THEN len2
     ELSE IF len2 = 0 THEN len1
     ELSE IF len1 > len2
          THEN EditDistanceCore(len2, string2, len1, string1, 0, uninit)
          ELSE EditDistanceCore(len1, string1, len2, string2, 0, uninit)

\* lev_edit_distance(len1, string1, len2, string2, xcost), the row being
\* allocated in memory that holds uninit
EditDistanceIn(s1, s2, xc, uninit) ==
  LET pre == CommonPrefix(s1, s2, 0)
      a1  == Sub(s1, pre, Len(s1) - pre)
      a2  == Sub(s2, pre, Len(s2) - pre)
      suf == CommonSuffix(a1, Len(a1), a2, Len(a2), 0)
      len1 == Len(a1) - suf
      len2 == Len(a2) - suf
      string1 == Sub(a1, 0, len1)
      string2 == Sub(a2, 0, len2)
  IN IF len1 = 0 THEN len2
     ELSE IF len2 = 0 THEN len1
     ELSE IF len1 > len2
          THEN EditDistanceCore(len2, string2, len1, string1, xc, uninit)
          ELSE EditDistanceCore(len1, string1, len2, string2, xc, uninit)

\* lev_edit_distance as the other routines call it
lev_edit_distance(s1, s2, xc) == EditDistanceIn(s1, s2, xc, 0)

(***************************************************************************)
(* lev_u_edit_distance: the same routine over lev_wchar.  The strips, the  *)
(* swap and the corner-skipping sweep have the text of lev_edit_distance   *)
(* with the symbol type changed; the len1 == 1 shortcut and the xcost      *)
(* sweep are written differently.                                          *)
(***************************************************************************)
\* UXCostRows changed to start the diagonal at i, as the byte version does
RECURSIVE UXCostRows_ByteDiagonal(_, _, _, _, _, _)
UXCostRows_ByteDiagonal(row, i, len1, string1, len2, string2) ==
  IF i >= len1 THEN row
  ELSE LET char1 == At(string1, i - 1)
           st[p \in 0..(len2 - 1)] ==
             IF p = 0 THEN [row |-> row, D |-> i, x |-> i]
             ELSE LET before == st[p - 1]
                      x1 == IF char1 = At(string2, p - 1)
                            THEN before.D ELSE before.x + 1
                      D2 == before.row[p]
                      x2 == IF x1 > D2 + 1 THEN D2 + 1 ELSE x1
                  IN [row |-> [before.row EXCEPT ![p] = x2], D |-> D2, x |-> x2]
       IN CHOOSE r \in {UXCostRows_ByteDiagonal(v, i + 1, len1, string1, len2,
                                                string2) :
                          v \in {st[len2 - 1].row}} : TRUE

\* for (i = 1; i < len1; i++) of the xcost branch of lev_u_edit_distance:
\* st[p] is the row with D and x after the inner loop has stored *p
RECURSIVE UXCostRows(_, _, _, _, _, _)
UXCostRows(row, i, len1, string1, len2, string2) ==
  IF i >= len1 THEN row
  ELSE LET char1 == At(string1, i - 1)
           st[p \in 0..(len2 - 1)] ==
             IF p = 0 THEN [row |-> row, D |-> i - 1, x |-> i]
             ELSE LET before == st[p - 1]
                      x1 == IF char1 = At(string2, p - 1)
                            THEN before.D ELSE before.x + 1
                      D2 == before.row[p]
                      x2 == IF x1 > D2 + 1 THEN D2 + 1 ELSE x1
                  IN [row |-> [before.row EXCEPT ![p] = x2], D |-> D2, x |-> x2]
       IN CHOOSE r \in {UXCostRows(v, i + 1, len1, string1, len2, string2) :
                          v \in {st[len2 - 1].row}} : TRUE

\* lev_u_edit_distance(len1, string1, len2, string2, xcost), the row being
\* allocated in memory that holds uninit
lev_u_edit_distance(s1, s2, xc, uninit) ==
  LET pre == CommonPrefix(s1, s2, 0)
      a1  == Sub(s1, pre, Len(s1) - pre)
      a2  == Sub(s2, pre, Len(s2) - pre)
      suf == CommonSuffix(a1, Len(a1), a2, Len(a2), 0)
      swap == Len(a1) > Len(a2)
      len1 == (IF swap THEN Len(a2) ELSE Len(a1)) - suf
      len2 == (IF swap THEN Len(a1) ELSE Len(a2)) - suf
      string1 == Sub(IF swap THEN a2 ELSE a1, 0, len1)
      string2 == Sub(IF swap THEN a1 ELSE a2, 0, len2)
      l1 == len1 + 1
      l2 == len2 + 1
      half == l1 \div 2
      ninit == l2 - (IF xc # 0 THEN 0 ELSE half)
      row0 == [k \in 0..(l2 - 1) |-> IF k < ninit THEN k ELSE uninit]
  IN IF len1 = 0 THEN len2
     ELSE IF len1 = 1
     THEN IF \E k \in 0..(len2 - 1) : At(string2, k) = At(string1, 0)
          THEN len2 - 1
          ELSE len2 + Ne(xc, 0)
     ELSE IF xc # 0
     THEN UXCostRows(row0, 1, l1, string1, l2, string2)[l2 - 1]
     ELSE LET r == SkipRows([row0 EXCEPT ![0] = l1 - half - 1], l2 - 1, 1,
                            l1, string1, l2, string2, half)
          IN r.row[r.end]

(***************************************************************************)
(* Reference notions the claims are stated with (not models of the code). *)
(***************************************************************************)
Min2(a, b) == IF a < b THEN a ELSE b

\* row i of the edit-cost matrix of a and b from row i - 1 (prev), c being
\* a[i]: cur holds its entries for the columns 0..j-1 (entry k at cur[k + 1])
RECURSIVE CostRow(_, _, _, _, _, _)
CostRow(prev, cur, c, b, sub, j) ==
  IF j > Len(b) THEN cur
  ELSE CostRow(prev,
               Append(cur, Min2(Min2(prev[j + 1] + 1, cur[j] + 1),
                                prev[j] + (IF c = b[j] THEN 0 ELSE sub))),
               c, b, sub, j + 1)

RECURSIVE CostRows(_, _, _, _, _)
CostRows(prev, a, b, sub, i) ==
  IF i > Len(a) THEN prev
  ELSE CHOOSE r \in {CostRows(v, a, b, sub, i + 1) :
                       v \in {CostRow(prev, <<i>>, a[i], b, sub, 1)}} : TRUE

\* the textbook edit distance with insertion and deletion costing 1 and
\* substitution costing sub: the last entry of the full (Wagner-Fischer) matrix
EditCost(a, b, sub) ==
  CostRows([j \in 1..(Len(b) + 1) |-> j - 1], a, b, sub, 1)[Len(b) + 1]

\* row i of the longest-common-subsequence matrix from row i - 1
RECURSIVE LCSRow(_, _, _, _, _)
LCSRow(prev, cur, c, b, j) ==
  IF j > Len(b) THEN cur
  ELSE LCSRow(prev,
              Append(cur, IF c = b[j] THEN prev[j] + 1
                          ELSE IF prev[j + 1] > cur[j] THEN prev[j + 1] ELSE cur[j]),
              c, b, j + 1)

RECURSIVE LCSRows(_, _, _, _)
LCSRows(prev, a, b, i) ==
  IF i > Len(a) THEN prev
  ELSE CHOOSE r \in {LCSRows(v, a, b, i + 1) :
                       v \in {LCSRow(prev, <<0>>, a[i], b, 1)}} : TRUE

\* length of a longest common subsequence
LCS(a, b) == LCSRows([j \in 1..(Len(b) + 1) |-> 0], a, b, 1)[Len(b) + 1]

\* ASCII strings of the spec's scenarios
Saturday == <<83, 97, 116, 117, 114, 100, 97, 121>>
Sunday   == <<83, 117, 110, 100, 97, 121>>
Kitten   == <<107, 105, 116, 116, 101, 110>>
Sitting  == <<115, 105, 116, 116, 105, 110, 103>>

(***************************************************************************)
(* State.                                                                  *)
(***************************************************************************)
VARIABLES
  pc,        \* where the modelled call stands
  \* lev_edit_distance
  str1,      \* string1 with its length
  str2,      \* string2 with its length
  xcost,     \* the xcost flag
  junk,      \* content of the memory safe_malloc returns for the row
  dist,      \* the value lev_edit_distance returned
  udist,     \* the value lev_u_edit_distance returned
  \* lev_set_median_index
  strings,   \* strings[] with lengths[]; n is Len(strings)
  weights,   \* weights[]
  distances, \* the compact triangular cache, -1 where memset left 0xff
  smi,       \* the loop variable i
  mindist,   \* smallest completed sum so far
  minidx,    \* its index
  median,    \* the value lev_set_median_index returned
  \* munkers_blackman
  n1,        \* number of columns
  n2,        \* number of rows
  cost0,     \* the cost matrix as the caller passed it, [row*n1 + col]
  dists,     \* the matrix as the solver has modified it
  epsu,      \* LEV_EPSILON counted in the unit the costs are multiples of
  covc,      \* covc[j] = 1 if column j is covered
  covr,      \* covr[i] = 1 if row i is covered
  zstarr,    \* 1 + column of the starred zero of row i, 0 for none
  zstarc,    \* 1 + row of the starred zero of column j, 0 for none
  zprimer,   \* 1 + column of the primed zero of row i, 0 for none
  mbrow,     \* the row i step 3 hands to step 4
  map,       \* the vector munkers_blackman returned
  \* lev_edit_seq_distance and lev_set_distance
  strings1,  \* the argument strings1 with lengths1; n1 is its length
  strings2,  \* the argument strings2 with lengths2
  sd1,       \* lev_set_distance: strings1, lengths1 after the swap
  sd2,       \* lev_set_distance: strings2, lengths2 after the swap
  setdist,   \* the value lev_set_distance returned, times CostScale
  seqdist,   \* the value lev_edit_seq_distance returned, times CostScale
  \* lev_editops_find, editops_from_cost_matrix and lev_editops_apply
  elen1,     \* len1 of lev_editops_find after the strips and len1++
  elen2,     \* len2 after the strips and len2++
  eoff,      \* len1o, the length of the stripped prefix (len2o = len1o)
  matrix,    \* the cost matrix, indexed [i*len2 + j]
  bti,       \* editops_from_cost_matrix: i
  btj,       \* editops_from_cost_matrix: j
  dir,       \* editops_from_cost_matrix: dir
  pos,       \* editops_from_cost_matrix: pos
  ops,       \* the array of edit operations
  nops,      \* *n
  applied,   \* the string lev_editops_apply or lev_opcodes_apply returned
  \* the conversions and the algebra of edit scripts
  bops,      \* the array of block operations
  nb,        \* *nb
  rops,      \* the operations lev_opcodes_to_editops returned
  norm,      \* the operations lev_editops_normalize returned
  operr,     \* the value lev_opcodes_check_errors returned
  inv,       \* the copy of ops that lev_editops_invert works on
  binv,      \* the copy of bops that lev_opcodes_invert works on
  mblocks,   \* the blocks lev_editops_matching_blocks returned
  bmblocks,  \* the blocks lev_opcodes_matching_blocks returned
  sub,       \* the argument sub of lev_editops_subtract
  rem,       \* the operations lev_editops_subtract returned
  nrem,      \* *nrem
  subrun,    \* lev_editops_subtract: what the run did outside its arrays
  \* lev_greedy_median, lev_median_improve and lev_quick_median
  initial,   \* the argument s of lev_median_improve with its length
  failat,    \* the allocation that fails in the call, "none" for none
  medbuf,    \* the buffer median; after the return the string returned
  medlength, \* *medlength
  returned,  \* "null" after a return of NULL, "buffer" after another
  medlen,    \* lev_median_improve: medlen
  mpos,      \* lev_median_improve: pos
  mrows,     \* lev_median_improve: rows[i], the matrix row of string i
  minminsum  \* lev_median_improve: minminsum

distVars == <<str1, str2, xcost, junk, dist, udist>>
medianVars == <<strings, weights, distances, smi, mindist, minidx, median>>
munkresVars == <<n1, n2, cost0, dists, epsu, covc, covr, zstarr, zstarc,
                 zprimer, mbrow, map>>
collVars == <<strings1, strings2, sd1, sd2, setdist, seqdist>>
editVars == <<elen1, elen2, eoff, matrix, bti, btj, dir, pos, ops, nops, applied>>
scriptVars == <<bops, nb, rops, norm, operr, inv, binv, mblocks, bmblocks, sub,
                rem, nrem, subrun>>
gmedVars == <<initial, failat, medbuf, medlength, returned, medlen, mpos, mrows,
              minminsum>>
vars == <<pc, distVars, medianVars, munkresVars, collVars, editVars, scriptVars,
          gmedVars>>

\* the variables of a routine the specification at hand does not call
DistIdle == str1 = << >> /\ str2 = << >> /\ xcost = 0 /\ junk = 0 /\ dist = 0 /\ udist = 0
MedianIdle ==
  /\ strings = << >> /\ weights = << >> /\ distances = << >>
  /\ smi = 0 /\ mindist = 0 /\ minidx = 0 /\ median = 0

MunkresIdle ==
  /\ n1 = 0 /\ n2 = 0 /\ cost0 = << >> /\ dists = << >> /\ epsu = 1
  /\ covc = << >> /\ covr = << >> /\ zstarr = << >> /\ zstarc = << >>
  /\ zprimer = << >> /\ mbrow = 0 /\ map = << >>

CollIdle ==
  /\ strings1 = << >> /\ strings2 = << >> /\ sd1 = << >> /\ sd2 = << >>
  /\ setdist = 0 /\ seqdist = 0

EditIdle ==
  /\ elen1 = 0 /\ elen2 = 0 /\ eoff = 0 /\ matrix = << >>
  /\ bti = 0 /\ btj = 0 /\ dir = 0 /\ pos = 0 /\ ops = << >> /\ nops = 0
  /\ applied = << >>

ScriptIdle ==
  /\ bops = << >> /\ nb = 0 /\ rops = << >> /\ norm = << >> /\ operr = 0
  /\ inv = << >> /\ binv = << >> /\ mblocks = << >> /\ bmblocks = << >>
  /\ sub = << >> /\ rem = << >> /\ nrem = 0 /\ subrun = << >>

GenMedianIdle ==
  /\ initial = << >> /\ failat = "none" /\ medbuf = << >> /\ medlength = 0
  /\ returned = "" /\ medlen = 0 /\ mpos = 0 /\ mrows = << >> /\ minminsum = 0

(***************************************************************************)
(* Specification Spec: calls of lev_edit_distance.                         *)
(***************************************************************************)
BoundedStrings == SeqsUpTo(Symbols, MaxLen)

ScenarioPairs == {<<Saturday, Sunday>>, <<Sunday, Saturday>>, <<Kitten, Sitting>>}

Init ==
  /\ pc = "call"
  /\ \E pair \in (BoundedStrings \X BoundedStrings) \cup ScenarioPairs :
       /\ str1 = pair[1]
       /\ str2 = pair[2]
  /\ xcost \in {0, 1}
  /\ junk \in (IF xcost = 0 THEN JunkValues ELSE {0})
  /\ dist = 0 /\ udist = 0
  /\ MedianIdle
  /\ MunkresIdle
  /\ CollIdle
  /\ EditIdle
  /\ ScriptIdle
  /\ GenMedianIdle

\* one call lev_edit_distance(len1, string1, len2, string2, xcost)
EditDistance ==
  /\ pc = "call"
  /\ dist' = EditDistanceIn(str1, str2, xcost, junk)
  /\ pc' = "done"
  /\ UNCHANGED <<str1, str2, xcost, junk, udist, medianVars, munkresVars, collVars,
                 editVars, scriptVars, gmedVars>>

\* one call lev_u_edit_distance(len1, string1, len2, string2, xcost) with
\* the arguments of the finished byte call, as wide characters
UEditDistance ==
  /\ pc = "done"
  /\ udist' = lev_u_edit_distance(str1, str2, xcost, junk)
  /\ pc' = "wide"
  /\ UNCHANGED <<str1, str2, xcost, junk, dist, medianVars, munkresVars, collVars,
                 editVars, scriptVars, gmedVars>>

Next == EditDistance \/ UEditDistance

Spec == Init /\ [][Next]_vars

\* C1: with xcost = 0 lev_edit_distance returns the classical Levenshtein
\* distance (insertion, deletion and substitution cost 1 each), whatever path
\* (stripping, swap, len1 == 1 shortcut, corner-skipping sweep) the call takes.
C1_UnitCostDistance ==
  (pc = "done" /\ xcost = 0) => dist = EditCost(str1, str2, 1)

\* C2: with xcost != 0 lev_edit_distance returns the minimum edit cost with
\* insertion and deletion costing 1 and substitution costing 2, which is
\* |a| + |b| - 2*LCS(a, b); the len1 == 1 shortcut included.
C2_SubstitutionCostTwo ==
  (pc = "done" /\ xcost # 0) =>
     /\ dist = EditCost(str1, str2, 2)
     /\ dist = Len(str1) + Len(str2) - 2 * LCS(str1, str2)

\* C3 as stated: lev_edit_distance("Saturday", "Sunday") is 3 with xcost = 0
\* and the same 3 with xcost = 1.
C3_SaturdaySundayBothThree ==
  (pc = "done" /\ str1 = Saturday /\ str2 = Sunday) => dist = 3

\* C3 amended: lev_edit_distance("Saturday", "Sunday") is 3 with xcost = 0
\* and 4 with xcost = 1 (a substitution then costs 2).
C3_SaturdaySundayThreeAndFour ==
  (pc = "done" /\ str1 = Saturday /\ str2 = Sunday) =>
     dist = (IF xcost = 0 THEN 3 ELSE 4)

\* the stripped cores of the two strings of the current call
CoreLens ==
  LET pre == CommonPrefix(str1, str2, 0)
      suf == CommonSuffix(Sub(str1, pre, Len(str1) - pre), Len(str1) - pre,
                          Sub(str2, pre, Len(str2) - pre), Len(str2) - pre, 0)
  IN <<Len(str1) - pre - suf, Len(str2) - pre - suf>>

\* a finished unit-cost call that swapped its arguments and ran the
\* corner-skipping sweep over cores of at least 3 and 4 symbols, on junk memory
C1_Witness ==
  /\ pc = "done" /\ xcost = 0 /\ junk # 0
  /\ CoreLens[1] > CoreLens[2] /\ CoreLens[2] >= 3
  /\ dist = 3

\* a finished xcost call through the sweep whose cost exceeds the unit-cost one
C2_Witness ==
  /\ pc = "done" /\ xcost # 0
  /\ CoreLens[1] >= 2 /\ CoreLens[2] >= 2
  /\ dist > EditCost(str1, str2, 1)

\* the finished call on "Saturday", "Sunday" with xcost = 1
C3_Witness ==
  pc = "done" /\ str1 = Saturday /\ str2 = Sunday /\ xcost = 1 /\ dist = 4

\* C21: for all strings a, b and both values of xcost the call with the
\* arguments exchanged returns the same number:
\* lev_edit_distance(a, b, xcost) = lev_edit_distance(b, a, xcost).
C21_DistanceIsSymmetric ==
  pc = "done" => \A u \in JunkValues : dist = EditDistanceIn(str2, str1, xcost, u)

\* a finished call on strings of different lengths whose cores have at least
\* two symbols each, so that one order of the arguments swaps and the other
\* does not, and both run a sweep
C21_Witness ==
  /\ pc = "done" /\ Len(str1) > Len(str2)
  /\ CoreLens[1] > CoreLens[2] /\ CoreLens[2] >= 2
  /\ dist >= 2

\* C22: the byte and the wide-character instantiation agree: for the same
\* two symbol sequences and the same xcost lev_edit_distance and
\* lev_u_edit_distance return the same number, the len1 == 1 shortcut and the
\* differently written xcost sweep included.
C22_WideAgreesWithByte ==
  pc = "wide" => udist = dist

\* both calls finished with xcost set on cores of at least two symbols each
\* (the two xcost sweeps), the result being above the unit-cost distance
C22_Witness ==
  /\ pc = "wide" /\ xcost # 0
  /\ CoreLens[1] >= 2 /\ CoreLens[2] >= 2
  /\ udist > EditCost(str1, str2, 1)

\* both calls finished through the len1 == 1 shortcut without a match
C22_ShortcutWitness ==
  /\ pc = "wide" /\ xcost # 0
  /\ CoreLens[1] = 1 /\ CoreLens[2] >= 2
  /\ udist = CoreLens[2] + 1

(***************************************************************************)
(* lev_set_median_index                                                    *)
(***************************************************************************)
\* most strings in a set
MaxSet == 3

\* longest string of a set
MaxSetLen == 2

\* largest weight of a string of a set
MaxWeight == 2

\* 1e100 in the source; here a number above every sum the bounded inputs
\* reach, as the model's integers have 32 bits
LEV_INFINITY == 1000000000

\* the index (i - 1)*(i - 2)/2 + j the code computes for the pair of the
\* larger index hi and the smaller lo. For hi = 1 the size_t factor hi - 2
\* wraps to 2^w - 1, and the product with hi - 1 = 0 is 0 as it is here.
CacheIndex(hi, lo) == ((hi - 1) * (hi - 2)) \div 2 + lo

\* while (j < i && dist < mindist) of "below diagonal": the sum it ends with
RECURSIVE BelowDiagonal(_, _, _, _, _, _, _)
BelowDiagonal(strs, wts, cache, i, md, j, d) ==
  IF ~(j < i /\ d < md) THEN d
  ELSE LET dindex == CacheIndex(i, j)
           dd == IF cache[dindex] >= 0
                 THEN cache[dindex]
                 ELSE lev_edit_distance(At(strs, j), At(strs, i), 0)
       IN BelowDiagonal(strs, wts, cache, i, md, j + 1, d + At(wts, j) * dd)

\* while (j < n && dist < mindist) of "above diagonal": the sum and the cache
RECURSIVE AboveDiagonal(_, _, _, _, _, _, _)
AboveDiagonal(strs, wts, cache, i, md, j, d) ==
  IF ~(j < Len(strs) /\ d < md) THEN [dist |-> d, distances |-> cache]
  ELSE LET dindex == CacheIndex(j, i)
           dd == lev_edit_distance(At(strs, j), At(strs, i), 0)
       IN AboveDiagonal(strs, wts, [cache EXCEPT ![dindex] = dd], i, md, j + 1,
                        d + At(wts, j) * dd)

SetStrings == SeqsUpTo(Symbols, MaxSetLen)

\* the string sets and weight vectors the calls are drawn from
StringSets == {s \in SeqsUpTo(SetStrings, MaxSet) : Len(s) >= 2}
WeightVectors == SeqsUpTo(0..MaxWeight, MaxSet)

\* the arguments of a call, and the state after malloc and memset
InitSetMedian ==
  /\ pc = "sm_loop"
  /\ strings \in StringSets
  /\ weights \in {w \in WeightVectors : Len(w) = Len(strings)}
  /\ distances = [k \in 0..((Len(strings) * (Len(strings) - 1)) \div 2 - 1) |-> -1]
  /\ smi = 0
  /\ mindist = LEV_INFINITY
  /\ minidx = 0
  /\ median = 0
  /\ DistIdle
  /\ MunkresIdle
  /\ CollIdle
  /\ EditIdle
  /\ ScriptIdle
  /\ GenMedianIdle

\* one pass of for (i = 0; i < n; i++)
SetMedianCandidate ==
  /\ pc = "sm_loop"
  /\ smi < Len(strings)
  /\ \E below \in {BelowDiagonal(strings, weights, distances, smi, mindist, 0, 0)} :
     \E above \in {AboveDiagonal(strings, weights, distances, smi, mindist,
                                smi + 1, below)} :
        /\ distances' = above.distances
        /\ mindist' = IF above.dist < mindist THEN above.dist ELSE mindist
        /\ minidx' = IF above.dist < mindist THEN smi ELSE minidx
  /\ smi' = smi + 1
  /\ UNCHANGED <<pc, strings, weights, median, distVars, munkresVars, collVars,
                 editVars, scriptVars, gmedVars>>

\* free(distances); return minidx;
SetMedianReturn ==
  /\ pc = "sm_loop"
  /\ smi >= Len(strings)
  /\ median' = minidx
  /\ pc' = "sm_done"
  /\ UNCHANGED <<strings, weights, distances, smi, mindist, minidx, distVars,
                 munkresVars, collVars, editVars, scriptVars, gmedVars>>

NextSetMedian == SetMedianCandidate \/ SetMedianReturn

SpecSetMedian == InitSetMedian /\ [][NextSetMedian]_vars

\* the weighted sum of unit-cost distances from strings[i] to all strings
SumOfDistances(strs, wts, i) ==
  LET s[j \in 0..Len(strs)] ==
        IF j = 0 THEN 0
        ELSE s[j - 1] + wts[j] * EditCost(strs[i + 1], strs[j], 1)
  IN s[Len(strs)]

\* C4: the index lev_set_median_index returns has the smallest weighted sum of
\* distances among all indices i in [0, n).
C4_SetMedianMinimises ==
  pc = "sm_done" =>
    \A i \in 0..(Len(strings) - 1) :
       SumOfDistances(strings, weights, median)
         <= SumOfDistances(strings, weights, i)

(***************************************************************************)
(* munkers_blackman                                                        *)
(***************************************************************************)
\* largest entry of a bounded cost matrix
MaxCost == 1

\* <<n1, n2>>: the numbers of columns and rows of the bounded cost matrices
Shapes == {<<1, 1>>, <<1, 2>>, <<1, 3>>, <<2, 2>>, <<2, 3>>, <<3, 3>>}

\* LEV_EPSILON (1e-14) in units of the cost grid. The unit is a power of
\* two, so that the doubles hold the costs, their sums and their differences
\* exactly (a unit of 1e-14 itself does not: 3e-14 - 2e-14 is a double below
\* 1e-14). With a unit of 2^-46 or more, such as 1.0 or 0.25, a difference x
\* of costs has x < LEV_EPSILON exactly if x < 1 unit; with the unit 2^-47
\* (about 0.71e-14) it has x < LEV_EPSILON exactly if x < 2 units.
EpsilonUnits == {1, 2}

\* the array with the elements of the tuple t
Array(t) == [k \in 0..(Len(t) - 1) |-> t[k + 1]]

\* the least element of a non-empty set of numbers
Least(S) == CHOOSE x \in S : \A y \in S : x <= y

\* if (*p < LEV_EPSILON) *p = 0.0;
Clamp(v, eps) == IF v < eps THEN 0 ELSE v

\* for (i = 1; i < n2; i++) if (min > *p) ...: the index of the column minimum (minidx)
RECURSIVE ColumnMinIdx(_, _, _, _, _, _)
ColumnMinIdx(d, cols, rows, j, i, minrow) ==
  IF i >= rows THEN minrow
  ELSE ColumnMinIdx(d, cols, rows, j, i + 1,
                    IF d[minrow * cols + j] > d[i * cols + j] THEN i ELSE minrow)

\* a cost beyond LEV_INFINITY * 2^53, such as 1e200: a double whose last bit
\* is worth more than LEV_INFINITY
Huge == 2 * LEV_INFINITY + 1

\* the double x + y of "*p -= min" and "*(p++) += min". The values of the
\* model have three sizes: the costs of the grid, far below the last bit of
\* LEV_INFINITY; LEV_INFINITY to twice it; and Huge. A term of a smaller
\* size is below the last bit of the other term, which is the sum; two terms
\* of one size add exactly.
DoubleSum(x, y) ==
  LET Size(v) == IF v >= Huge \/ 0 - v >= Huge THEN 2
                 ELSE IF v >= LEV_INFINITY \/ 0 - v >= LEV_INFINITY THEN 1
                 ELSE 0
  IN IF Size(x) > Size(y) THEN x
     ELSE IF Size(y) > Size(x) THEN y
     ELSE x + y

\* "subtract": column j of d less min, clamped
SubtractColumn(d, cols, j, min, eps) ==
  [k \in DOMAIN d |->
     IF k % cols = j THEN Clamp(DoubleSum(d[k], 0 - min), eps) ELSE d[k]]

\* StarColumn changed to star the column minimum without looking whether
\* its row has a star already
StarColumn_AlwaysStar(d, cols, rows, zr, zc, j, minrow) ==
  [zstarr |-> [zr EXCEPT ![minrow] = j + 1],
   zstarc |-> [zc EXCEPT ![j] = minrow + 1]]

\* "star the zero, if possible", "otherwise try to find some other": the
\* stars after column j, whose minimum is in row minrow
StarColumn(d, cols, rows, zr, zc, j, minrow) ==
  IF zc[j] = 0 /\ zr[minrow] = 0
  THEN [zstarr |-> [zr EXCEPT ![minrow] = j + 1],
        zstarc |-> [zc EXCEPT ![j] = minrow + 1]]
  ELSE LET other == {i \in 0..(rows - 1) :
                       i # minrow /\ d[i * cols + j] = 0 /\ zc[j] = 0 /\ zr[i] = 0}
       IN IF other = {} THEN [zstarr |-> zr, zstarc |-> zc]
          ELSE [zstarr |-> [zr EXCEPT ![Least(other)] = j + 1],
                zstarc |-> [zc EXCEPT ![j] = Least(other) + 1]]

\* steps 0 and 1 for the columns j, j + 1, ..., n1 - 1
RECURSIVE Step01Columns(_, _, _, _, _, _, _)
Step01Columns(d, cols, rows, zr, zc, j, eps) ==
  IF j >= cols THEN [dists |-> d, zstarr |-> zr, zstarc |-> zc]
  ELSE LET Go(minrow) ==
             LET Star(d2) ==
                   LET Rest(s) == Step01Columns(d2, cols, rows, s.zstarr, s.zstarc,
                                                j + 1, eps)
                   IN Rest(StarColumn(d2, cols, rows, zr, zc, j, minrow))
             IN Star(SubtractColumn(d, cols, j, d[minrow * cols + j], eps))
       IN Go(ColumnMinIdx(d, cols, rows, j, 1, 0))

\* step 3: the uncovered zeros, as <<column, row>>
UncoveredZeros(d, cols, rows, cc, cr) ==
  {z \in (0..(cols - 1)) \X (0..(rows - 1)) :
     cc[z[1]] = 0 /\ cr[z[2]] = 0 /\ d[z[2] * cols + z[1]] = 0}

\* the zero the search of step 3 meets first: columns outside, rows inside
FirstZero(Z) ==
  CHOOSE z \in Z : \A y \in Z : z[1] < y[1] \/ (z[1] = y[1] /\ z[2] <= y[2])

\* MinUncovered changed to search all entries, the covered ones too
MinUncovered_OfAllEntries(d, cols, rows, cc, cr) ==
  LET below == {v \in {d[k] : k \in DOMAIN d} : LEV_INFINITY > v}
  IN IF below = {} THEN LEV_INFINITY ELSE Least(below)

\* step 5: the smallest uncovered entry, LEV_INFINITY if there is none
MinUncovered(d, cols, rows, cc, cr) ==
  LET U == {d[i * cols + j] : <<j, i>> \in
              {z \in (0..(cols - 1)) \X (0..(rows - 1)) : cc[z[1]] = 0 /\ cr[z[2]] = 0}}
      below == {v \in U : LEV_INFINITY > v}
  IN IF below = {} THEN LEV_INFINITY ELSE Least(below)

\* step 5: min added to all covered rows, then subtracted from all uncovered
\* columns and clamped
Step5Matrix(d, cols, cc, cr, min, eps) ==
  [k \in DOMAIN d |->
     LET added == IF cr[k \div cols] # 0 THEN DoubleSum(d[k], min) ELSE d[k]
     IN IF cc[k % cols] = 0 THEN Clamp(DoubleSum(added, 0 - min), eps)
        ELSE added]

\* the do ... while (i) loop of step 4, entered with i (1-based row)
RECURSIVE Augment(_, _, _, _)
Augment(zr, zc, zp, i) ==
  LET j == zp[i - 1] - 1
  IN IF zc[j] = 0
     THEN [zstarr |-> [zr EXCEPT ![i - 1] = j + 1],
           zstarc |-> [zc EXCEPT ![j] = i]]
     ELSE Augment([zr EXCEPT ![i - 1] = j + 1], [zc EXCEPT ![j] = i], zp, zc[j])

Zeros(n) == [k \in 0..(n - 1) |-> 0]

\* the state after the calloc calls, for a matrix d and an epsilon of eps units
MunkresEntry(cols, rows, d, eps) ==
  /\ n1 = cols /\ n2 = rows /\ cost0 = d /\ dists = d /\ epsu = eps
  /\ covc = Zeros(cols) /\ zstarc = Zeros(cols)
  /\ covr = Zeros(rows) /\ zstarr = Zeros(rows) /\ zprimer = Zeros(rows)
  /\ mbrow = 0 /\ map = << >>

otherThanMunkres == <<distVars, medianVars, collVars, editVars, scriptVars, gmedVars>>

\* step 0 (subtract minimal distance) and step 1 (find zeroes)
MBStep01 ==
  /\ pc = "mb_step01"
  /\ \E s \in {Step01Columns(dists, n1, n2, zstarr, zstarc, 0, epsu)} :
       /\ dists' = s.dists
       /\ zstarr' = s.zstarr
       /\ zstarc' = s.zstarc
  /\ pc' = "mb_step2"
  /\ UNCHANGED <<n1, n2, cost0, epsu, covc, covr, zprimer, mbrow, map,
                 otherThanMunkres>>

\* step 2 (cover columns containing z*)
MBStep2 ==
  /\ pc = "mb_step2"
  /\ covc' = [j \in 0..(n1 - 1) |-> IF zstarc[j] # 0 THEN 1 ELSE covc[j]]
  /\ pc' = IF Cardinality({j \in 0..(n1 - 1) : zstarc[j] # 0}) = n1
           THEN "mb_return" ELSE "mb_step3"
  /\ UNCHANGED <<n1, n2, cost0, dists, epsu, covr, zstarr, zstarc, zprimer,
                 mbrow, map, otherThanMunkres>>

\* step 3 (find uncovered zeroes): one search of the uncovered entries
MBStep3 ==
  /\ pc = "mb_step3"
  /\ \E Z \in {UncoveredZeros(dists, n1, n2, covc, covr)} :
       IF Z = {}
       THEN /\ pc' = "mb_step5"
            /\ UNCHANGED <<zprimer, covr, covc, mbrow>>
       ELSE \E z \in {FirstZero(Z)} :
              /\ zprimer' = [zprimer EXCEPT ![z[2]] = z[1] + 1]
              /\ IF zstarr[z[2]] # 0
                 THEN /\ covr' = [covr EXCEPT ![z[2]] = 1]
                      /\ covc' = [covc EXCEPT ![zstarr[z[2]] - 1] = 0]
                      /\ pc' = "mb_step3"
                      /\ UNCHANGED mbrow
                 ELSE /\ mbrow' = z[2]
                      /\ pc' = "mb_step4"
                      /\ UNCHANGED <<covr, covc>>
  /\ UNCHANGED <<n1, n2, cost0, dists, epsu, zstarr, zstarc, map,
                 otherThanMunkres>>

\* step 5 (new zero manufacturer)
MBStep5 ==
  /\ pc = "mb_step5"
  /\ dists' = Step5Matrix(dists, n1, covc, covr,
                          MinUncovered(dists, n1, n2, covc, covr), epsu)
  /\ pc' = "mb_step3"
  /\ UNCHANGED <<n1, n2, cost0, epsu, covc, covr, zstarr, zstarc, zprimer,
                 mbrow, map, otherThanMunkres>>

\* step 4 (increment the number of z*)
MBStep4 ==
  /\ pc = "mb_step4"
  /\ \E s \in {Augment(zstarr, zstarc, zprimer, mbrow + 1)} :
       /\ zstarr' = s.zstarr
       /\ zstarc' = s.zstarc
  /\ zprimer' = Zeros(n2)
  /\ covr' = Zeros(n2)
  /\ covc' = Zeros(n1)
  /\ pc' = "mb_step2"
  /\ UNCHANGED <<n1, n2, cost0, dists, epsu, mbrow, map, otherThanMunkres>>

\* for (j = 0; j < n1; j++) zstarc[j]--; return zstarc;
MBReturn ==
  /\ pc = "mb_return"
  /\ map' = [j \in 0..(n1 - 1) |-> zstarc[j] - 1]
  /\ pc' = "mb_done"
  /\ UNCHANGED <<n1, n2, cost0, dists, epsu, covc, covr, zstarr, zstarc,
                 zprimer, mbrow, otherThanMunkres>>

\* cost matrices beyond the bounded ones: 3 columns and 4 rows, 4 and 4
LargerMatrices ==
  {<<3, 4, Array(<<7, 5, 3,  2, 9, 4,  6, 1, 8,  3, 3, 3>>)>>,
   <<4, 4, Array(<<1, 2, 3, 4,  2, 4, 6, 8,  3, 6, 9, 12,  4, 8, 12, 16>>)>>,
   <<4, 4, Array(<<5, 9, 3, 6,  8, 7, 8, 2,  6, 10, 12, 7,  3, 10, 8, 6>>)>>}

InitMunkres ==
  /\ pc = "mb_step01"
  /\ \/ \E shape \in Shapes :
          \E d \in [0..(shape[1] * shape[2] - 1) -> 0..MaxCost] :
          \E eps \in EpsilonUnits :
            MunkresEntry(shape[1], shape[2], d, eps)
     \/ \E m \in LargerMatrices : MunkresEntry(m[1], m[2], m[3], 1)
  /\ DistIdle
  /\ MedianIdle
  /\ CollIdle
  /\ EditIdle
  /\ ScriptIdle
  /\ GenMedianIdle

NextMunkres == MBStep01 \/ MBStep2 \/ MBStep3 \/ MBStep5 \/ MBStep4 \/ MBReturn

SpecMunkres == InitMunkres /\ [][NextMunkres]_vars

\* the injective assignments of the columns to rows
Assignments(cols, rows) ==
  {f \in [0..(cols - 1) -> 0..(rows - 1)] :
     \A a, b \in 0..(cols - 1) : a # b => f[a] # f[b]}

\* the sum over the columns j of cost[f[j]][j]
AssignedCost(d, cols, f) ==
  LET s[j \in 0..cols] == IF j = 0 THEN 0 ELSE s[j - 1] + d[f[j - 1] * cols + (j - 1)]
  IN s[cols]

MapIsInjective ==
  /\ DOMAIN map = 0..(n1 - 1)
  /\ \A j \in 0..(n1 - 1) : map[j] \in 0..(n2 - 1)
  /\ \A a, b \in 0..(n1 - 1) : a # b => map[a] # map[b]

MapIsMinimal ==
  \A f \in Assignments(n1, n2) :
     AssignedCost(cost0, n1, map) <= AssignedCost(cost0, n1, f)

\* C7 as stated: for every matrix of non-negative costs the returned vector
\* holds pairwise distinct rows in [0, n2) and its total cost is minimal among
\* all injective assignments.
C7_MunkresMinimalForAllCosts ==
  pc = "mb_done" => (MapIsInjective /\ MapIsMinimal)

\* C7 amended: for every matrix whose costs are multiples k*u, k a whole
\* number from 0 to 2^50, of a power of two u from 2^-46 to 1 (such as whole
\* costs up to 2^50, or multiples of 0.25), the call returns a vector that
\* holds pairwise distinct rows in [0, n2) and whose total cost is minimal
\* among all injective assignments. The matrices of the model with an
\* epsilon of 1 unit are such matrices: on them every sum and difference of
\* the solver is exact, and is zero or at least LEV_EPSILON.
C7_MunkresMinimalOnGrid ==
  pc = "mb_done" => (MapIsInjective /\ (epsu = 1 => MapIsMinimal))

\* a finished run on a 3 x 3 grid matrix in which step 5 has raised an entry
\* and the assignment is not the diagonal
C7_Witness ==
  /\ pc = "mb_done" /\ epsu = 1 /\ n1 = 3 /\ n2 = 3
  /\ \E k \in DOMAIN dists : dists[k] > cost0[k]
  /\ \E j \in 0..2 : map[j] # j

(***************************************************************************)
(* Specification SpecMunkresFair: munkers_blackman on the matrices of      *)
(* SpecMunkres.  The routine is one thread that runs from step to step     *)
(* without waiting, so the next step is always taken: weak fairness of     *)
(* NextMunkres.                                                            *)
(***************************************************************************)
SpecMunkresFair == InitMunkres /\ [][NextMunkres]_vars /\ WF_vars(NextMunkres)

\* the number of starred zeros, counted in the columns
StarCount == Cardinality({j \in 0..(n1 - 1) : zstarc[j] # 0})

\* at most one star per row and per column: zstarc and zstarr name each other
StarsAreUnique ==
  /\ \A j \in 0..(n1 - 1) : zstarc[j] # 0 => zstarr[zstarc[j] - 1] = j + 1
  /\ \A i \in 0..(n2 - 1) : zstarr[i] # 0 => zstarc[zstarr[i] - 1] = i + 1

\* each pass through step 4 increases the number of starred zeros by one
Step4AddsOneStar ==
  [][pc = "mb_step4" => StarCount' = StarCount + 1]_vars

\* step 5 finds a minimum among the uncovered entries
Step5FindsMinimum ==
  pc = "mb_step5" => MinUncovered(dists, n1, n2, covc, covr) < LEV_INFINITY

\* C30: munkers_blackman terminates for every n2 x n1 matrix of non-negative
\* costs with 1 <= n1 <= n2: each pass through step 4 increases the number
\* of starred zeros by one while keeping at most one star per row and per
\* column, and between two passes steps 3 and 5 repeat only finitely often
\* (step 5 always finds a finite minimum among the uncovered entries).
C30_MunkresTerminates ==
  /\ <>(pc = "mb_done")
  /\ [](pc # "mb_step01" => StarsAreUnique)
  /\ Step4AddsOneStar
  /\ []Step5FindsMinimum

\* step 5 has made a zero in a matrix of three columns, step 3 has covered
\* a row on its way to it, and step 4 is about to add the last star
C30_Witness ==
  /\ pc = "mb_step4" /\ n1 = 3 /\ StarCount = 2
  /\ \E i \in 0..(n2 - 1) : covr[i] = 1
  /\ \E k \in DOMAIN dists : dists[k] > cost0[k]

(***************************************************************************)
(* lev_set_distance and lev_edit_seq_distance.  A collection of strings    *)
(* (strings1 with lengths1 and n1) is a sequence of strings.  The doubles  *)
(* are fractions d / l with l at most 2 * MaxItemLen, so every value is    *)
(* held as an integer number of units of 1 / CostScale; LEV_EPSILON is far *)
(* below that unit, so munkers_blackman runs with an epsilon of one unit.  *)
(***************************************************************************)
MaxItemLen == 2
MaxItems1 == 2
MaxItems2 == 3

GCD(a, b) ==
  LET g[x \in 0..a, y \in 0..b] ==
        IF y = 0 THEN x ELSE IF x = 0 THEN y
        ELSE IF x >= y THEN g[x - y, y] ELSE g[x, y - x]
  IN g[a, b]

\* the least common multiple of 1 .. 2 * MaxItemLen
CostScale ==
  LET m[k \in 0..(2 * MaxItemLen)] ==
        IF k = 0 THEN 1 ELSE (m[k - 1] * k) \div GCD(m[k - 1], k)
  IN m[2 * MaxItemLen]

\* for (j = 0; j < n1; j++): one row of the distance matrix, for the string
\* str2 of strings2; p is the position of len1p and str1p in strings1
RECURSIVE SetDistanceRow(_, _, _, _, _)
SetDistanceRow(s2, c1, j, p, acc) ==
  IF j >= Len(c1) THEN acc
  ELSE LET l == Len(s2) + Len(At(c1, p))
       IN IF l = 0
          THEN SetDistanceRow(s2, c1, j + 1, p, Append(acc, 0))
          ELSE SetDistanceRow(s2, c1, j + 1, p + 1,
                 Append(acc, (lev_edit_distance(s2, At(c1, p), 1) * CostScale) \div l))

\* for (i = 0; i < n2; i++): the matrix, indexed [row*n1 + col]
RECURSIVE SetDistanceMatrix(_, _, _, _)
SetDistanceMatrix(c1, c2, i, acc) ==
  IF i >= Len(c2) THEN Array(acc)
  ELSE SetDistanceMatrix(c1, c2, i + 1,
         acc \o SetDistanceRow(At(c2, i), c1, 0, 0, << >>))

\* sum = n2 - n1; for (j = 0; j < n1; j++) ... sum += 2.0 * d / l;
RECURSIVE SetDistanceSumFrom(_, _, _, _, _)
SetDistanceSumFrom(c1, c2, m, j, sum) ==
  IF j >= Len(c1) THEN sum
  ELSE LET l == Len(At(c1, j)) + Len(At(c2, m[j]))
       IN SetDistanceSumFrom(c1, c2, m, j + 1,
            IF l > 0
            THEN sum + (2 * lev_edit_distance(At(c1, j), At(c2, m[j]), 1) * CostScale) \div l
            ELSE sum)

otherThanSetDistance ==
  <<distVars, medianVars, strings1, strings2, seqdist, editVars, scriptVars, gmedVars>>

\* lev_set_distance up to the call of munkers_blackman
SetDistanceCall ==
  /\ pc = "sd_call"
  /\ IF Len(strings1) = 0 \/ Len(strings2) = 0
     THEN /\ setdist' = (IF Len(strings1) = 0 THEN Len(strings2) ELSE Len(strings1)) * CostScale
          /\ pc' = "sd_done"
          /\ UNCHANGED <<sd1, sd2, munkresVars>>
     ELSE \E swap \in {Len(strings1) > Len(strings2)} :
          \E c1 \in {IF swap THEN strings2 ELSE strings1} :
          \E c2 \in {IF swap THEN strings1 ELSE strings2} :
          \E d \in {SetDistanceMatrix(c1, c2, 0, << >>)} :
            /\ sd1' = c1 /\ sd2' = c2
            /\ n1' = Len(c1) /\ n2' = Len(c2) /\ cost0' = d /\ dists' = d
            /\ epsu' = 1
            /\ covc' = Zeros(Len(c1)) /\ zstarc' = Zeros(Len(c1))
            /\ covr' = Zeros(Len(c2)) /\ zstarr' = Zeros(Len(c2))
            /\ zprimer' = Zeros(Len(c2))
            /\ mbrow' = 0 /\ map' = << >>
            /\ pc' = "mb_step01"
            /\ UNCHANGED setdist
  /\ UNCHANGED otherThanSetDistance

\* lev_set_distance after munkers_blackman returned map
SetDistanceSum ==
  /\ pc = "mb_done"
  /\ setdist' = SetDistanceSumFrom(sd1, sd2, map, 0, (n2 - n1) * CostScale)
  /\ pc' = "sd_done"
  /\ UNCHANGED <<sd1, sd2, munkresVars, otherThanSetDistance>>

ItemStrings == SeqsUpTo(Symbols, MaxItemLen)
Collections1 == SeqsUpTo(ItemStrings, MaxItems1)
Collections2 == SeqsUpTo(ItemStrings, MaxItems2)

InitCollections ==
  /\ strings1 \in Collections1
  /\ strings2 \in Collections2
  /\ sd1 = << >> /\ sd2 = << >> /\ setdist = 0 /\ seqdist = 0
  /\ DistIdle
  /\ MedianIdle
  /\ MunkresIdle
  /\ EditIdle
  /\ ScriptIdle
  /\ GenMedianIdle

InitSetDistance == pc = "sd_call" /\ InitCollections

NextSetDistance ==
  \/ SetDistanceCall
  \/ MBStep01 \/ MBStep2 \/ MBStep3 \/ MBStep5 \/ MBStep4 \/ MBReturn
  \/ SetDistanceSum

SpecSetDistance == InitSetDistance /\ [][NextSetDistance]_vars

\* the cost of pairing a with b, in units: lev(a, b, xcost = 1) / (|a| + |b|),
\* and 0 for two empty strings
PairCost(a, b) ==
  IF Len(a) + Len(b) = 0 THEN 0
  ELSE (EditCost(a, b, 2) * CostScale) \div (Len(a) + Len(b))

\* the sum over the strings a of small of PairCost(a, large[f[a]])
AssignmentCost(small, large, f) ==
  LET s[j \in 0..Len(small)] ==
        IF j = 0 THEN 0
        ELSE s[j - 1] + PairCost(small[j], At(large, f[j - 1]))
  IN s[Len(small)]

\* |n2 - n1| plus twice the minimum over the injective assignments, in units
SetDistanceRef(c1, c2) ==
  LET R(small, large) ==
        (Len(large) - Len(small)) * CostScale
        + 2 * Least({AssignmentCost(small, large, f) :
                       f \in Assignments(Len(small), Len(large))})
  IN IF Len(c1) <= Len(c2) THEN R(c1, c2) ELSE R(c2, c1)

\* C5: lev_set_distance returns |n2 - n1| plus twice the minimum, over the
\* injective assignments of the smaller collection into the larger, of the sum
\* of lev(a, b, xcost = 1) / (|a| + |b|), empty strings included.
C5_SetDistanceIsMinimalAssignment ==
  pc = "sd_done" => setdist = SetDistanceRef(strings1, strings2)

(***************************************************************************)
(* lev_edit_seq_distance: the one-row sweep over two sequences of strings. *)
(***************************************************************************)
\* strip common prefix: the number of leading strings that are equal
RECURSIVE CommonItemPrefix(_, _, _)
CommonItemPrefix(c1, c2, k) ==
  IF k < Len(c1) /\ k < Len(c2) /\ At(c1, k) = At(c2, k)
  THEN CommonItemPrefix(c1, c2, k + 1)
  ELSE k

\* strip common suffix: the number of trailing strings that are equal
RECURSIVE CommonItemSuffix(_, _, _)
CommonItemSuffix(c1, c2, k) ==
  IF k < Len(c1) /\ k < Len(c2) /\ At(c1, Len(c1) - 1 - k) = At(c2, Len(c2) - 1 - k)
  THEN CommonItemSuffix(c1, c2, k + 1)
  ELSE k

\* q = D for l == 0, else D + 2.0 / l * d: s1 is str1, s2 the string at str2p
SeqReplace(s1, s2, D) ==
  LET Q(l) == IF l = 0 THEN D
              ELSE D + (2 * CostScale * lev_edit_distance(s1, s2, 1)) \div l
  IN Q(Len(s1) + Len(s2))

\* x += 1.0; if (x > q) x = q; D = *p; if (x > D + 1.0) x = D + 1.0;
SeqCell(x, q, D2) ==
  LET Capped(x1) == IF x1 > D2 + CostScale THEN D2 + CostScale ELSE x1
  IN Capped(IF x + CostScale > q THEN q ELSE x + CostScale)

\* *(p++) = x: the row and the value of x after the store
SeqStore(row, p, x) == [row |-> [row EXCEPT ![p] = x], x |-> x]

\* while (p <= end): st holds the row of costs and x, p is the index into the
\* row, s1 the string str1, q2 the position of len2p and str2p in strings2
RECURSIVE SeqInner(_, _, _, _, _, _)
SeqInner(st, p, s1, c2, q2, D) ==
  IF p > Len(c2) THEN st.row
  ELSE SeqInner(SeqStore(st.row, p,
                         SeqCell(st.x, SeqReplace(s1, At(c2, q2), D), st.row[p])),
                p + 1, s1, c2,
                IF Len(s1) + Len(At(c2, q2)) = 0 THEN q2 ELSE q2 + 1,
                st.row[p])

\* for (i = 1; i < n1; i++)
RECURSIVE SeqRows(_, _, _, _)
SeqRows(row, i, c1, c2) ==
  IF i > Len(c1) THEN row
  ELSE SeqRows(SeqInner([row |-> row, x |-> i * CostScale], 1, c1[i], c2, 0,
                        (i - 1) * CostScale),
               i + 1, c1, c2)

\* the sweep after the trivial cases and the swap: c1 is the shorter sequence
SeqSweep(c1, c2) ==
  SeqRows([k \in 0..Len(c2) |-> k * CostScale], 1, c1, c2)[Len(c2)]

\* the length of the common suffix of the sequences after pre common strings
SeqSuffixAfter(c1, c2, pre) ==
  CommonItemSuffix(Sub(c1, pre, Len(c1) - pre), Sub(c2, pre, Len(c2) - pre), 0)

\* the sequences between a common prefix of pre and a common suffix of suf
\* strings: trivial cases, swap, sweep
SeqDistanceCore(c1, c2, pre, suf) ==
  IF Len(c1) - pre - suf = 0 THEN (Len(c2) - pre - suf) * CostScale
  ELSE IF Len(c2) - pre - suf = 0 THEN (Len(c1) - pre - suf) * CostScale
  ELSE IF Len(c1) > Len(c2)
       THEN SeqSweep(Sub(c2, pre, Len(c2) - pre - suf), Sub(c1, pre, Len(c1) - pre - suf))
       ELSE SeqSweep(Sub(c1, pre, Len(c1) - pre - suf), Sub(c2, pre, Len(c2) - pre - suf))

\* the value lev_edit_seq_distance returns, in units of 1 / CostScale
lev_edit_seq_distance(c1, c2) ==
  SeqDistanceCore(c1, c2, CommonItemPrefix(c1, c2, 0),
                  SeqSuffixAfter(c1, c2, CommonItemPrefix(c1, c2, 0)))

\* one call of lev_edit_seq_distance
EditSeqDistance ==
  /\ pc = "sq_call"
  /\ seqdist' = lev_edit_seq_distance(strings1, strings2)
  /\ pc' = "sq_done"
  /\ UNCHANGED <<distVars, medianVars, munkresVars, strings1, strings2, sd1,
                 sd2, setdist, editVars, scriptVars, gmedVars>>

InitSeqDistance == pc = "sq_call" /\ InitCollections

NextSeqDistance == EditSeqDistance

SpecSeqDistance == InitSeqDistance /\ [][NextSeqDistance]_vars

\* one row of the Levenshtein matrix over strings: insert and delete cost one,
\* replacing a by b costs 2 * PairCost(a, b)
RECURSIVE SeqCostRow(_, _, _, _)
SeqCostRow(prev, a, c2, acc) ==
  IF Len(acc) > Len(c2) THEN acc
  ELSE LET j == Len(acc)
       IN SeqCostRow(prev, a, c2,
            Append(acc, Min2(Min2(prev[j + 1] + CostScale, acc[j] + CostScale),
                             prev[j] + 2 * PairCost(a, c2[j]))))

RECURSIVE SeqCostRows(_, _, _, _)
SeqCostRows(prev, i, c1, c2) ==
  IF i > Len(c1) THEN prev
  ELSE SeqCostRows(SeqCostRow(prev, c1[i], c2, <<i * CostScale>>), i + 1, c1, c2)

\* the Levenshtein distance between two sequences of strings, in units
SeqDistanceRef(c1, c2) ==
  SeqCostRows([k \in 1..(Len(c2) + 1) |-> (k - 1) * CostScale], 1, c1, c2)[Len(c2) + 1]

\* C6: lev_edit_seq_distance returns the Levenshtein distance between the two
\* sequences of strings in which insert and delete cost 1 and replacing a by b
\* costs 2 * lev(a, b, xcost = 1) / (|a| + |b|), 0 for two empty strings.
C6_SeqDistanceIsStringLevenshtein ==
  pc = "sq_done" => seqdist = SeqDistanceRef(strings1, strings2)

(***************************************************************************)
(* lev_editops_find with editops_from_cost_matrix, and lev_editops_apply.  *)
(* An edit operation is a record of type, spos and dpos; the array ops is  *)
(* a function on 0 .. n - 1 and the NULL of an empty script is << >>.      *)
(***************************************************************************)
MaxEditLen == 5

\* LevEditType
LEV_EDIT_KEEP == 0
LEV_EDIT_REPLACE == 1
LEV_EDIT_INSERT == 2
LEV_EDIT_DELETE == 3

EditOp(ty, sp, dp) == [type |-> ty, spos |-> sp, dpos |-> dp]

\* strip common prefix: the value of len1o
RECURSIVE EditopsPrefix(_, _, _)
EditopsPrefix(s1, s2, k) ==
  IF k < Len(s1) /\ k < Len(s2) /\ At(s1, k) = At(s2, k)
  THEN EditopsPrefix(s1, s2, k + 1)
  ELSE k

\* strip common suffix: the number of symbols taken off the end of the
\* strings that are left after pre symbols were taken off the front
RECURSIVE EditopsSuffix(_, _, _, _)
EditopsSuffix(s1, s2, pre, k) ==
  IF Len(s1) - pre - k > 0 /\ Len(s2) - pre - k > 0
     /\ At(s1, Len(s1) - k - 1) = At(s2, Len(s2) - k - 1)
  THEN EditopsSuffix(s1, s2, pre, k + 1)
  ELSE k

\* initialize first row and column; the other cells hold what malloc left
FirstRowAndColumn(len1, len2, uninit) ==
  [k \in 0..(len1 * len2 - 1) |->
     IF k < len2 THEN k ELSE IF k % len2 = 0 THEN k \div len2 ELSE uninit]

\* x++; if (x > c3) x = c3; c3 = *prev + 1; if (x > c3) x = c3;
FillCell(x, c3, up) ==
  LET Capped(x1) == IF x1 > up + 1 THEN up + 1 ELSE x1
  IN Capped(IF x + 1 > c3 THEN c3 ELSE x + 1)

\* FillDiagonal changed to charge two for a substitution
FillDiagonal_Double(m, len2, i, p, char1, string2) ==
  m[(i - 1) * len2 + p - 1] + 2 * Ne(char1, At(string2, p - 1))

\* c3 = *(prev++) + (char1 != *(char2p++)) for the cell in row i, column p
FillDiagonal(m, len2, i, p, char1, string2) ==
  m[(i - 1) * len2 + p - 1] + Ne(char1, At(string2, p - 1))

\* *(p++) = x: the matrix and the value of x after the store into cell k
FillStore(m, k, x) == [m |-> [m EXCEPT ![k] = x], x |-> x]

\* while (p <= end) of row i: st holds the matrix and x, p is the column
RECURSIVE FillInner(_, _, _, _, _, _)
FillInner(st, i, p, len2, char1, string2) ==
  IF p > len2 - 1 THEN st.m
  ELSE FillInner(FillStore(st.m, i * len2 + p,
                           FillCell(st.x,
                                    FillDiagonal(st.m, len2, i, p, char1, string2),
                                    st.m[(i - 1) * len2 + p])),
                 i, p + 1, len2, char1, string2)

\* find the costs and fill the matrix: for (i = 1; i < len1; i++); filled is
\* the matrix after the pass for row i
RECURSIVE FillRows(_, _, _, _, _, _)
FillRows(m, i, len1, string1, len2, string2) ==
  IF i >= len1 THEN m
  ELSE CHOOSE r \in
         {FillRows(filled, i + 1, len1, string1, len2, string2) :
            filled \in {FillInner([m |-> m, x |-> i], i, 1, len2,
                                  At(string1, i - 1), string2)}} : TRUE

\* the cost matrix with len1 and len2 (after len1++ and len2++) and the offset
\* len1o, for a common prefix of pre and a common suffix of suf symbols
EditopsCore(s1, s2, pre, suf, uninit) ==
  [len1 |-> Len(s1) - pre - suf + 1,
   len2 |-> Len(s2) - pre - suf + 1,
   off |-> pre,
   m |-> FillRows(FirstRowAndColumn(Len(s1) - pre - suf + 1,
                                    Len(s2) - pre - suf + 1, uninit),
                  1,
                  Len(s1) - pre - suf + 1, Sub(s1, pre, Len(s1) - pre - suf),
                  Len(s2) - pre - suf + 1, Sub(s2, pre, Len(s2) - pre - suf))]

\* lev_editops_find up to the call of editops_from_cost_matrix
EditopsMatrix(s1, s2, uninit) ==
  EditopsCore(s1, s2, EditopsPrefix(s1, s2, 0),
              EditopsSuffix(s1, s2, EditopsPrefix(s1, s2, 0), 0), uninit)

\* KeepHere changed to go diagonally on equal costs without comparing the symbols
KeepHere_NoCompare(m, len2, i, j, string1, string2) ==
  i # 0 /\ j # 0 /\ m[i * len2 + j] = m[(i - 1) * len2 + j - 1]

\* if (i && j && *p == *(p - len2 - 1) && string1[i - 1] == string2[j - 1])
KeepHere(m, len2, i, j, string1, string2) ==
  /\ i # 0 /\ j # 0
  /\ m[i * len2 + j] = m[(i - 1) * len2 + j - 1]
  /\ At(string1, i - 1) = At(string2, j - 1)

\* BackStore changed to note the direction with the opposite sign
BackStore_ReversedDirection(st, i2, j2, d2, op) ==
  IF st.pos = 0
  THEN [st EXCEPT !.status = "outside"]
  ELSE [i |-> i2, j |-> j2, dir |-> 0 - d2, pos |-> st.pos - 1,
        ops |-> [st.ops EXCEPT ![st.pos - 1] = op], status |-> "run"]

\* pos--; ops[pos] = ...; a store below ops[0] is outside the array
BackStore(st, i2, j2, d2, op) ==
  IF st.pos = 0
  THEN [st EXCEPT !.status = "outside"]
  ELSE [i |-> i2, j |-> j2, dir |-> d2, pos |-> st.pos - 1,
        ops |-> [st.ops EXCEPT ![st.pos - 1] = op], status |-> "run"]

\* one pass of while (i || j): st holds i, j, dir, pos and ops
BackStepOf(m, len2, string1, string2, off1, off2, st) ==
  IF st.dir < 0 /\ st.j # 0 /\ m[st.i * len2 + st.j] = m[st.i * len2 + st.j - 1] + 1
  THEN BackStore(st, st.i, st.j - 1, st.dir,
                 EditOp(LEV_EDIT_INSERT, st.i + off1, st.j - 1 + off2))
  ELSE IF st.dir > 0 /\ st.i # 0
          /\ m[st.i * len2 + st.j] = m[(st.i - 1) * len2 + st.j] + 1
  THEN BackStore(st, st.i - 1, st.j, st.dir,
                 EditOp(LEV_EDIT_DELETE, st.i - 1 + off1, st.j + off2))
  ELSE IF KeepHere(m, len2, st.i, st.j, string1, string2)
  THEN [st EXCEPT !.i = st.i - 1, !.j = st.j - 1, !.dir = 0]
  ELSE IF st.i # 0 /\ st.j # 0
          /\ m[st.i * len2 + st.j] = m[(st.i - 1) * len2 + st.j - 1] + 1
  THEN BackStore(st, st.i - 1, st.j - 1, 0,
                 EditOp(LEV_EDIT_REPLACE, st.i - 1 + off1, st.j - 1 + off2))
  ELSE IF st.dir = 0 /\ st.j # 0
          /\ m[st.i * len2 + st.j] = m[st.i * len2 + st.j - 1] + 1
  THEN BackStore(st, st.i, st.j - 1, -1,
                 EditOp(LEV_EDIT_INSERT, st.i + off1, st.j - 1 + off2))
  ELSE IF st.dir = 0 /\ st.i # 0
          /\ m[st.i * len2 + st.j] = m[(st.i - 1) * len2 + st.j] + 1
  THEN BackStore(st, st.i - 1, st.j, 1,
                 EditOp(LEV_EDIT_DELETE, st.i - 1 + off1, st.j + off2))
  ELSE [st EXCEPT !.status = "lost"]

\* pos = *n = matrix[len1*len2 - 1]
ScriptLength(m, len1, len2) == m[len1 * len2 - 1]

\* the state of editops_from_cost_matrix when it enters the loop: ops holds
\* what malloc left
BackEntry(len1, len2, n, uninit) ==
  [i |-> len1 - 1, j |-> len2 - 1, dir |-> 0, pos |-> n,
   ops |-> [k \in 0..(n - 1) |-> EditOp(uninit, uninit, uninit)],
   status |-> "run"]


\* while (i || j) of editops_from_cost_matrix, run to its end
RECURSIVE BackTrack(_, _, _, _, _, _)
BackTrack(m, len2, string1, string2, off, st) ==
  IF st.status # "run" \/ (st.i = 0 /\ st.j = 0) THEN st
  ELSE BackTrack(m, len2, string1, string2, off,
                 BackStepOf(m, len2, string1, string2, off, off, st))

\* editops_from_cost_matrix after pos = *n = ...: NULL for n = 0, else the
\* state the loop ends in (c holds the matrix, the lengths and the offset)
EditopsWayBack(s1, s2, c, n, uninit) ==
  IF n = 0
  THEN [i |-> 0, j |-> 0, dir |-> 0, pos |-> 0, ops |-> << >>, status |-> "run"]
  ELSE BackTrack(c.m, c.len2, Sub(s1, c.off, c.len1 - 1),
                 Sub(s2, c.off, c.len2 - 1), c.off,
                 BackEntry(c.len1, c.len2, n, uninit))

\* editops_from_cost_matrix on the matrix and lengths in c
EditopsFromCostMatrix(s1, s2, c, uninit) ==
  EditopsWayBack(s1, s2, c, ScriptLength(c.m, c.len1, c.len2), uninit)

\* lev_editops_find(len1, string1, len2, string2, n) with malloc leaving uninit
lev_editops_find(s1, s2, uninit) ==
  EditopsFromCostMatrix(s1, s2, EditopsMatrix(s1, s2, uninit), uninit)

\* ApplyOp changed to leave spos where it is on a replace
ApplyOp_ReplaceStays(string1, string2, op, st) ==
  [spos |-> st.spos + (op.spos - st.spos + (IF op.type = LEV_EDIT_KEEP THEN 1 ELSE 0))
            + (IF op.type = LEV_EDIT_DELETE THEN 1 ELSE 0),
   dst |-> st.dst
           \o Sub(string1, st.spos,
                  op.spos - st.spos + (IF op.type = LEV_EDIT_KEEP THEN 1 ELSE 0))
           \o (IF op.type \in {LEV_EDIT_REPLACE, LEV_EDIT_INSERT}
               THEN <<At(string2, op.dpos)>> ELSE << >>)]

\* one pass of the loop of lev_editops_apply: st holds spos (as an index into
\* string1) and the destination written so far; j symbols are copied first
ApplyOp(string1, string2, op, st) ==
  [spos |-> st.spos + (op.spos - st.spos + (IF op.type = LEV_EDIT_KEEP THEN 1 ELSE 0))
            + (IF op.type \in {LEV_EDIT_DELETE, LEV_EDIT_REPLACE} THEN 1 ELSE 0),
   dst |-> st.dst
           \o Sub(string1, st.spos,
                  op.spos - st.spos + (IF op.type = LEV_EDIT_KEEP THEN 1 ELSE 0))
           \o (IF op.type \in {LEV_EDIT_REPLACE, LEV_EDIT_INSERT}
               THEN <<At(string2, op.dpos)>> ELSE << >>)]

\* for (i = n; i; i--, ops++) and the copy of the rest of string1
RECURSIVE ApplyLoop(_, _, _, _, _, _)
ApplyLoop(string1, string2, n, script, k, st) ==
  IF k >= n THEN st.dst \o Sub(string1, st.spos, Len(string1) - st.spos)
  ELSE ApplyLoop(string1, string2, n, script, k + 1,
                 ApplyOp(string1, string2, script[k], st))

\* lev_editops_apply(len1, string1, len2, string2, n, ops, len): the string
\* returned; *len is its length
lev_editops_apply(string1, string2, n, script) ==
  ApplyLoop(string1, string2, n, script, 0, [spos |-> 0, dst |-> << >>])

otherThanEditops ==
  <<xcost, dist, udist, medianVars, munkresVars, collVars, scriptVars, gmedVars>>

\* lev_editops_find up to the loop of editops_from_cost_matrix
EditopsFind ==
  /\ pc = "ef_call"
  /\ \E c \in {EditopsMatrix(str1, str2, junk)} :
     \E n \in {ScriptLength(c.m, c.len1, c.len2)} :
       /\ elen1' = c.len1 /\ elen2' = c.len2 /\ eoff' = c.off /\ matrix' = c.m
       /\ nops' = n /\ pos' = n
       /\ IF n = 0
          THEN /\ ops' = << >>
               /\ pc' = "ef_done"
               /\ UNCHANGED <<bti, btj, dir>>
          ELSE \E st \in {BackEntry(c.len1, c.len2, n, junk)} :
                 /\ ops' = st.ops /\ bti' = st.i /\ btj' = st.j /\ dir' = st.dir
                 /\ pc' = "ef_back"
  /\ UNCHANGED <<str1, str2, junk, applied, otherThanEditops>>

\* one pass of while (i || j)
BackStep ==
  /\ pc = "ef_back"
  /\ ~(bti = 0 /\ btj = 0)
  /\ \E st \in {BackStepOf(matrix, elen2, Sub(str1, eoff, elen1 - 1),
                           Sub(str2, eoff, elen2 - 1), eoff, eoff,
                           [i |-> bti, j |-> btj, dir |-> dir, pos |-> pos,
                            ops |-> ops, status |-> "run"])} :
       /\ bti' = st.i /\ btj' = st.j /\ dir' = st.dir /\ pos' = st.pos
       /\ ops' = st.ops
       /\ pc' = IF st.status = "run" THEN "ef_back"
                ELSE IF st.status = "lost" THEN "ef_lost" ELSE "ef_outside"
  /\ UNCHANGED <<str1, str2, junk, elen1, elen2, eoff, matrix, nops, applied,
                 otherThanEditops>>

\* free(matrix); return ops;
BackReturn ==
  /\ pc = "ef_back"
  /\ bti = 0 /\ btj = 0
  /\ pc' = "ef_done"
  /\ UNCHANGED <<distVars, medianVars, munkresVars, collVars, editVars, scriptVars, gmedVars>>

\* lev_editops_apply on string1 with the script just found
EditopsApply ==
  /\ pc = "ef_done"
  /\ applied' = lev_editops_apply(str1, str2, nops, ops)
  /\ pc' = "ea_done"
  /\ UNCHANGED <<str1, str2, junk, elen1, elen2, eoff, matrix, bti, btj, dir,
                 pos, ops, nops, otherThanEditops>>

EditStrings == SeqsUpTo(Symbols, MaxEditLen)

InitEditops ==
  /\ pc = "ef_call"
  /\ \E pair \in (EditStrings \X EditStrings) \cup {<<Kitten, Sitting>>} :
       str1 = pair[1] /\ str2 = pair[2]
  /\ junk \in JunkValues
  /\ xcost = 0 /\ dist = 0 /\ udist = 0
  /\ EditIdle
  /\ ScriptIdle
  /\ GenMedianIdle
  /\ MedianIdle
  /\ MunkresIdle
  /\ CollIdle

NextEditops == EditopsFind \/ BackStep \/ BackReturn \/ EditopsApply

SpecEditops == InitEditops /\ [][NextEditops]_vars

\* C8: applying the operations lev_editops_find(a, b) returned to a, with b as
\* the destination, yields exactly b, and the length stored is |b|.
C8_ApplyFoundScriptYieldsDestination ==
  pc = "ea_done" => (applied = str2 /\ Len(applied) = Len(str2))

\* a finished application of a script that replaces and inserts, found after
\* a common prefix was stripped
C8_Witness ==
  /\ pc = "ea_done" /\ eoff > 0 /\ nops >= 2
  /\ \E k \in DOMAIN ops : ops[k].type = LEV_EDIT_REPLACE
  /\ \E k \in DOMAIN ops : ops[k].type = LEV_EDIT_INSERT
  /\ applied = str2

\* C9: the number of operations stored in *n equals
\* lev_edit_distance(a, b, xcost = 0), the array holds that many operations,
\* none of type Keep, and the script is the same whatever the fresh memory
\* held.
C9_ScriptIsOptimalAndDeterministic ==
  pc = "ef_done" =>
    /\ nops = lev_edit_distance(str1, str2, 0)
    /\ DOMAIN ops = 0..(nops - 1)
    /\ \A k \in DOMAIN ops :
         ops[k].type \in {LEV_EDIT_REPLACE, LEV_EDIT_INSERT, LEV_EDIT_DELETE}
    /\ \A u \in JunkValues : lev_editops_find(str1, str2, u).ops = ops

\* a script of two or more operations with a deletion, written into memory
\* whose fresh content reads as Keep operations
C9_Witness ==
  /\ pc = "ef_done" /\ junk = 0 /\ nops >= 2
  /\ \E k \in DOMAIN ops : ops[k].type = LEV_EDIT_DELETE
  /\ \E k \in DOMAIN ops : ops[k].type = LEV_EDIT_REPLACE

\* C10: lev_editops_find("kitten", "sitting") returns Replace(0, 0),
\* Replace(4, 4), Insert(6, 6) in that order, and the distance of the pair
\* with xcost = 0 is 3.
C10_KittenSittingScript ==
  (pc = "ef_done" /\ str1 = Kitten /\ str2 = Sitting) =>
    /\ nops = 3
    /\ ops = Array(<<EditOp(LEV_EDIT_REPLACE, 0, 0),
                     EditOp(LEV_EDIT_REPLACE, 4, 4),
                     EditOp(LEV_EDIT_INSERT, 6, 6)>>)
    /\ lev_edit_distance(Kitten, Sitting, 0) = 3

\* the search for the script of kitten and sitting has ended with three
\* operations stored
C10_Witness ==
  /\ pc = "ef_done" /\ str1 = Kitten /\ str2 = Sitting
  /\ nops = 3 /\ Cardinality(DOMAIN ops) = 3 /\ pos = 0

\* C27: while editops_from_cost_matrix tracks back over the cost matrix of
\* two strings, in every state (i, j, dir) with (i, j) # (0, 0) one of the six
\* transitions is enabled, so that the assertion "lost in the cost matrix" is
\* never reached; pos is positive whenever an operation is stored, and is 0
\* when (i, j) reaches (0, 0).
C27_BackTrackingNeverLost ==
  /\ pc # "ef_lost"
  /\ pc # "ef_outside"
  /\ (pc = "ef_back" /\ bti = 0 /\ btj = 0) => pos = 0
  /\ (pc = "ef_back" /\ ~(bti = 0 /\ btj = 0)) =>
       BackStepOf(matrix, elen2, Sub(str1, eoff, elen1 - 1),
                  Sub(str2, eoff, elen2 - 1), eoff, eoff,
                  [i |-> bti, j |-> btj, dir |-> dir, pos |-> pos, ops |-> ops,
                   status |-> "run"]).status = "run"

\* the walk stands inside the matrix after an insertion that it cannot
\* continue (the cell to the left is not cheaper by one), with operations
\* still to store: it has to turn through the diagonal
C27_Witness ==
  /\ pc = "ef_back" /\ dir < 0 /\ bti # 0 /\ btj # 0 /\ pos > 0
  /\ matrix[bti * elen2 + btj] # matrix[bti * elen2 + btj - 1] + 1

(***************************************************************************)
(* Conversions between edit operations and block operations:               *)
(* lev_editops_to_opcodes, lev_opcodes_to_editops, lev_editops_normalize.  *)
(* A script is an array of EditOp records, a list of block operations an   *)
(* array of OpCode records.                                                *)
(***************************************************************************)
MaxScriptLen == 4

OpCode(ty, sb, se, db, de) ==
  [type |-> ty, sbeg |-> sb, send |-> se, dbeg |-> db, dend |-> de]

\* while (o->type == LEV_EDIT_KEEP && --i) o++;  the index o stops at, n when
\* the loop leaves i = 0
RECURSIVE SkipKeeps(_, _, _)
SkipKeeps(script, n, k) ==
  IF script[k].type # LEV_EDIT_KEEP THEN k
  ELSE IF k + 1 >= n THEN n
  ELSE SkipKeeps(script, n, k + 1)

\* RunEnd changed to merge operations of the same type that do not touch
RECURSIVE RunEnd_IgnorePosition(_, _, _, _, _, _)
RunEnd_IgnorePosition(script, n, k, ty, sp, dp) ==
  LET sp2 == sp + (IF ty \in {LEV_EDIT_REPLACE, LEV_EDIT_DELETE} THEN 1 ELSE 0)
      dp2 == dp + (IF ty \in {LEV_EDIT_REPLACE, LEV_EDIT_INSERT} THEN 1 ELSE 0)
  IN IF k + 1 < n /\ script[k + 1].type = ty
     THEN RunEnd_IgnorePosition(script, n, k + 1, ty, sp2, dp2)
     ELSE [k |-> k + 1, spos |-> sp2, dpos |-> dp2]

\* the switch on type with its three loops  do { spos++; dpos++; i--; o++; }
\* while (i && o->type == type && spos == o->spos && dpos == o->dpos);  a
\* replace steps in both strings, a delete in the source, an insert in the
\* destination
RECURSIVE RunEnd(_, _, _, _, _, _)
RunEnd(script, n, k, ty, sp, dp) ==
  LET sp2 == sp + (IF ty \in {LEV_EDIT_REPLACE, LEV_EDIT_DELETE} THEN 1 ELSE 0)
      dp2 == dp + (IF ty \in {LEV_EDIT_REPLACE, LEV_EDIT_INSERT} THEN 1 ELSE 0)
  IN IF /\ k + 1 < n
        /\ script[k + 1].type = ty
        /\ sp2 = script[k + 1].spos
        /\ dp2 = script[k + 1].dpos
     THEN RunEnd(script, n, k + 1, ty, sp2, dp2)
     ELSE [k |-> k + 1, spos |-> sp2, dpos |-> dp2]

\* the two loops of lev_editops_to_opcodes, which take the same way through
\* the script: the first counts the blocks in nbl, the second writes them.
\* st holds spos, dpos, nbl and the blocks written; k is the index of o.
RECURSIVE WalkBlocks(_, _, _, _)
WalkBlocks(script, n, k, st) ==
  IF k >= n \/ SkipKeeps(script, n, k) >= n THEN st
  ELSE LET o == script[SkipKeeps(script, n, k)]
           gap == st.spos < o.spos \/ st.dpos < o.dpos
           sb == IF gap THEN o.spos ELSE st.spos
           db == IF gap THEN o.dpos ELSE st.dpos
           run == RunEnd(script, n, SkipKeeps(script, n, k), o.type, sb, db)
       IN WalkBlocks(script, n, run.k,
            [spos |-> run.spos, dpos |-> run.dpos,
             nbl |-> st.nbl + (IF gap THEN 2 ELSE 1),
             blocks |-> st.blocks
                        \o (IF gap
                            THEN <<OpCode(LEV_EDIT_KEEP, st.spos, sb, st.dpos, db)>>
                            ELSE << >>)
                        \o <<OpCode(o.type, sb, run.spos, db, run.dpos)>>])

\* OpcodesResult changed to forget the trailing keep block
OpcodesResult_NoTrailingBlock(st, len1, len2) ==
  [nbl |-> st.nbl, bops |-> Array(st.blocks), written |-> Len(st.blocks),
   gapfits |-> TRUE]

\* the end of the two loops of lev_editops_to_opcodes: the trailing keep
\* block and the two assertions.  bops is the array returned, nbl the number
\* stored in *nb, gapfits the value of the assertion at the trailing block
\* (TRUE where it is not reached), written the number b - bops.
OpcodesResult(st, len1, len2) ==
  [nbl |-> st.nbl + (IF st.spos < len1 \/ st.dpos < len2 THEN 1 ELSE 0),
   bops |-> Array(st.blocks
                  \o (IF st.spos < len1 \/ st.dpos < len2
                      THEN <<OpCode(LEV_EDIT_KEEP, st.spos, len1, st.dpos, len2)>>
                      ELSE << >>)),
   written |-> Len(st.blocks)
               + (IF st.spos < len1 \/ st.dpos < len2 THEN 1 ELSE 0),
   gapfits |-> (st.spos < len1 \/ st.dpos < len2)
                 => (len1 - st.spos = len2 - st.dpos)]

\* lev_editops_to_opcodes(n, ops, nb, len1, len2)
lev_editops_to_opcodes(n, script, len1, len2) ==
  OpcodesResult(WalkBlocks(script, n, 0,
                           [spos |-> 0, dpos |-> 0, nbl |-> 0, blocks |-> << >>]),
                len1, len2)

\* the switch of lev_opcodes_to_editops: the operations one block becomes
BlockEditops(b, keepkeep) ==
  IF b.type = LEV_EDIT_REPLACE \/ (b.type = LEV_EDIT_KEEP /\ keepkeep # 0)
  THEN [j \in 1..(b.send - b.sbeg) |->
          EditOp(b.type, b.sbeg + j - 1, b.dbeg + j - 1)]
  ELSE IF b.type = LEV_EDIT_DELETE
  THEN [j \in 1..(b.send - b.sbeg) |-> EditOp(b.type, b.sbeg + j - 1, b.dbeg)]
  ELSE IF b.type = LEV_EDIT_INSERT
  THEN [j \in 1..(b.dend - b.dbeg) |-> EditOp(b.type, b.sbeg, b.dbeg + j - 1)]
  ELSE << >>

\* lev_opcodes_to_editops(nb, bops, n, keepkeep): ops is the array returned
\* (the empty array for NULL), n the number stored in *n.  count[k] is what
\* the first loops add to *n from block k on, sd > dd ? sd : dd for a block
\* that counts; written[k] is what the converting loop writes from block k on.
lev_opcodes_to_editops(nblocks, blocks, keepkeep) ==
  LET count[k \in 0..nblocks] ==
        IF k = nblocks THEN 0
        ELSE (IF keepkeep = 0 /\ blocks[k].type = LEV_EDIT_KEEP THEN 0
              ELSE IF blocks[k].send - blocks[k].sbeg
                        > blocks[k].dend - blocks[k].dbeg
              THEN blocks[k].send - blocks[k].sbeg
              ELSE blocks[k].dend - blocks[k].dbeg)
             + count[k + 1]
      written[k \in 0..nblocks] ==
        IF k = nblocks THEN << >>
        ELSE BlockEditops(blocks[k], keepkeep) \o written[k + 1]
  IN IF nblocks = 0 THEN [n |-> 0, ops |-> << >>]
     ELSE [n |-> count[0], ops |-> Array(written[0])]

\* lev_editops_normalize(n, ops, nnorm): ops is the array returned (the empty
\* array for NULL), n the number stored in *nnorm
lev_editops_normalize(n, script) ==
  LET copied[k \in 0..n] ==
        IF k = n THEN << >>
        ELSE (IF script[k].type = LEV_EDIT_KEEP THEN << >> ELSE <<script[k]>>)
             \o copied[k + 1]
  IN IF n = 0 \/ script = << >> THEN [n |-> 0, ops |-> << >>]
     ELSE [n |-> n - Cardinality({k \in 0..(n - 1) :
                                    script[k].type = LEV_EDIT_KEEP}),
           ops |-> Array(copied[0])]

\* the error codes of the two validators, LEV_EDIT_ERR_OK ... LEV_EDIT_ERR_SPAN
LevEditOpError ==
  [OK |-> 0, TYPE |-> 1, OUT |-> 2, ORDER |-> 3, BLOCK |-> 4, SPAN |-> 5]

\* lev_editops_check_errors(len1, len2, n, ops).  OpError is one pass of the
\* loop "check bounds"; LEV_EDIT_LAST is the number after LEV_EDIT_DELETE.
lev_editops_check_errors(len1, len2, n, script) ==
  LET OpError(o) ==
        IF o.type >= LEV_EDIT_DELETE + 1 THEN LevEditOpError.TYPE
        ELSE IF o.spos > len1 \/ o.dpos > len2 THEN LevEditOpError.OUT
        ELSE IF o.spos = len1 /\ o.type # LEV_EDIT_INSERT THEN LevEditOpError.OUT
        ELSE IF o.dpos = len2 /\ o.type # LEV_EDIT_DELETE THEN LevEditOpError.OUT
        ELSE LevEditOpError.OK
      wrong == {k \in 0..(n - 1) : OpError(script[k]) # LevEditOpError.OK}
  IN IF n = 0 THEN LevEditOpError.OK
     ELSE IF wrong # {} THEN OpError(script[Least(wrong)])
     ELSE IF \E k \in 1..(n - 1) :
               \/ script[k].spos < script[k - 1].spos
               \/ script[k].dpos < script[k - 1].dpos
     THEN LevEditOpError.ORDER
     ELSE LevEditOpError.OK

\* lev_opcodes_check_errors(len1, len2, nb, bops).  BlockError is one pass of
\* the loop "check bounds and block consistency"; the spans are differences
\* of size_t, and for positions below 2^63 they are equal, or zero, exactly
\* when the differences of the integers are.
lev_opcodes_check_errors(len1, len2, nblocks, blocks) ==
  LET BlockError(b) ==
        IF b.send > len1 \/ b.dend > len2 THEN LevEditOpError.OUT
        ELSE IF b.type \in {LEV_EDIT_KEEP, LEV_EDIT_REPLACE}
        THEN (IF b.dend - b.dbeg # b.send - b.sbeg \/ b.dend = b.dbeg
              THEN LevEditOpError.BLOCK ELSE LevEditOpError.OK)
        ELSE IF b.type = LEV_EDIT_INSERT
        THEN (IF b.dend - b.dbeg = 0 \/ b.send - b.sbeg # 0
              THEN LevEditOpError.BLOCK ELSE LevEditOpError.OK)
        ELSE IF b.type = LEV_EDIT_DELETE
        THEN (IF b.send - b.sbeg = 0 \/ b.dend - b.dbeg # 0
              THEN LevEditOpError.BLOCK ELSE LevEditOpError.OK)
        ELSE LevEditOpError.TYPE
      wrong == {k \in 0..(nblocks - 1) : BlockError(blocks[k]) # LevEditOpError.OK}
  IN IF nblocks = 0 THEN 1
     ELSE IF \/ blocks[0].sbeg # 0 \/ blocks[0].dbeg # 0
             \/ blocks[nblocks - 1].send # len1
             \/ blocks[nblocks - 1].dend # len2
     THEN LevEditOpError.SPAN
     ELSE IF wrong # {} THEN BlockError(blocks[Least(wrong)])
     ELSE IF \E k \in 1..(nblocks - 1) :
               \/ blocks[k].sbeg # blocks[k - 1].send
               \/ blocks[k].dbeg # blocks[k - 1].dend
     THEN LevEditOpError.ORDER
     ELSE LevEditOpError.OK

\* if (type & 2) type ^= 1
InvertType(ty) ==
  IF (ty \div 2) % 2 = 1 THEN (IF ty % 2 = 0 THEN ty + 1 ELSE ty - 1) ELSE ty

\* lev_editops_invert(n, ops): the array as the call leaves it
lev_editops_invert(n, script) ==
  [k \in DOMAIN script |->
     IF k < n
     THEN EditOp(InvertType(script[k].type), script[k].dpos, script[k].spos)
     ELSE script[k]]

\* lev_opcodes_invert changed to leave the type of a block as it is
lev_opcodes_invert_KeepType(count, blocks) ==
  [k \in DOMAIN blocks |->
     IF k < count
     THEN OpCode(blocks[k].type, blocks[k].dbeg, blocks[k].dend,
                 blocks[k].sbeg, blocks[k].send)
     ELSE blocks[k]]

\* lev_opcodes_invert(nb, bops): the array as the call leaves it
lev_opcodes_invert(count, blocks) ==
  [k \in DOMAIN blocks |->
     IF k < count
     THEN OpCode(InvertType(blocks[k].type), blocks[k].dbeg, blocks[k].dend,
                 blocks[k].sbeg, blocks[k].send)
     ELSE blocks[k]]

\* lev_opcodes_apply(len1, string1, len2, string2, nb, bops, len): the string
\* returned; *len is its length.  copied[k] is what the blocks from k on put
\* into dst, where a block that copies nothing leaves what malloc left.
lev_opcodes_apply(string1, string2, nblocks, blocks, uninit) ==
  LET copied[k \in 0..nblocks] ==
        IF k = nblocks THEN << >>
        ELSE (IF blocks[k].type \in {LEV_EDIT_INSERT, LEV_EDIT_REPLACE}
              THEN Sub(string2, blocks[k].dbeg, blocks[k].dend - blocks[k].dbeg)
              ELSE IF blocks[k].type = LEV_EDIT_KEEP
              THEN Sub(string1, blocks[k].sbeg, blocks[k].send - blocks[k].sbeg)
              ELSE [x \in 1..(blocks[k].dend - blocks[k].dbeg) |-> uninit])
             \o copied[k + 1]
  IN copied[0]

\* lev_editops_matching_blocks changed to store spos in dpos as well
lev_editops_matching_blocks_SposTwice(len1, len2, n, script) ==
  LET st == WalkBlocks(script, n, 0,
                       [spos |-> 0, dpos |-> 0, nbl |-> 0, blocks |-> << >>])
      gaps == SelectSeq(st.blocks, LAMBDA b : b.type = LEV_EDIT_KEEP)
      last == IF st.spos < len1 \/ st.dpos < len2
              THEN <<[spos |-> st.spos, dpos |-> st.spos, len |-> len1 - st.spos]>>
              ELSE << >>
  IN [nmb |-> Len(gaps) + Len(last),
      mblocks |-> Array([x \in 1..Len(gaps) |->
                           [spos |-> gaps[x].sbeg, dpos |-> gaps[x].sbeg,
                            len |-> gaps[x].send - gaps[x].sbeg]] \o last)]

\* lev_editops_matching_blocks(len1, len2, n, ops, nmblocks).  Its two loops
\* are the loops of lev_editops_to_opcodes and take the same way through the
\* script; a matching block is counted and written where WalkBlocks writes a
\* keep block before an operation (mb->len = o->spos - spos), and one more at
\* the trailing gap (mb->len = len1 - spos).  mblocks is the array returned,
\* nmb the number stored in *nmblocks.
lev_editops_matching_blocks(len1, len2, n, script) ==
  LET st == WalkBlocks(script, n, 0,
                       [spos |-> 0, dpos |-> 0, nbl |-> 0, blocks |-> << >>])
      gaps == SelectSeq(st.blocks, LAMBDA b : b.type = LEV_EDIT_KEEP)
      last == IF st.spos < len1 \/ st.dpos < len2
              THEN <<[spos |-> st.spos, dpos |-> st.dpos, len |-> len1 - st.spos]>>
              ELSE << >>
  IN [nmb |-> Len(gaps) + Len(last),
      mblocks |-> Array([x \in 1..Len(gaps) |->
                           [spos |-> gaps[x].sbeg, dpos |-> gaps[x].dbeg,
                            len |-> gaps[x].send - gaps[x].sbeg]] \o last)]

\* lev_opcodes_matching_blocks(len1, len2, nb, bops, nmblocks).  written[k]
\* is what the converting loop writes from block k on: a run of keep blocks
\* gives one matching block, which ends where the block behind the run
\* starts, or at len1; the counting loop counts these runs.
lev_opcodes_matching_blocks(len1, len2, nblocks, blocks) ==
  LET Behind(k) == Least({x \in k..nblocks :
                            x = nblocks \/ blocks[x].type # LEV_EDIT_KEEP})
      written[k \in 0..(nblocks + 1)] ==
        IF k >= nblocks THEN << >>
        ELSE IF blocks[k].type # LEV_EDIT_KEEP THEN written[k + 1]
        ELSE IF Behind(k) >= nblocks
        THEN <<[spos |-> blocks[k].sbeg, dpos |-> blocks[k].dbeg,
                len |-> len1 - blocks[k].sbeg]>>
        ELSE <<[spos |-> blocks[k].sbeg, dpos |-> blocks[k].dbeg,
                len |-> blocks[Behind(k)].sbeg - blocks[k].sbeg]>>
             \o written[Behind(k) + 1]
  IN [nmb |-> Len(written[0]), mblocks |-> Array(written[0])]

\* static const int shifts[] = { 0, 0, 1, -1 };
shifts == Array(<<0, 0, 1, -1>>)

\* Remainder changed to copy the operation without the shift
Remainder_NoShift(st, o) ==
  IF o.type = LEV_EDIT_KEEP THEN [st EXCEPT !.j = st.j + 1]
  ELSE [st EXCEPT !.rem = Append(st.rem, EditOp(o.type, o.spos, o.dpos)),
                  !.nn = st.nn + 1,
                  !.overrun = st.overrun \/ st.nn >= st.nr,
                  !.nullwrite = st.nr = 0,
                  !.j = st.j + 1]

\* if (ops[j].type != LEV_EDIT_KEEP) { rem[nn] = ops[j]; rem[nn].spos =
\* (size_t)((int)rem[nn].spos + shift); nn++; } j++;  st holds j, nn, shift,
\* nr, the operations written to rem, and in overrun whether one of them was
\* written at an index that is not below nr; with nr = 0 rem is NULL and the
\* store ends the process: nullwrite
Remainder(st, o) ==
  IF o.type = LEV_EDIT_KEEP THEN [st EXCEPT !.j = st.j + 1]
  ELSE [st EXCEPT !.rem = Append(st.rem, EditOp(o.type, o.spos + st.shift, o.dpos)),
                  !.nn = st.nn + 1,
                  !.overrun = st.overrun \/ st.nn >= st.nr,
                  !.nullwrite = st.nr = 0,
                  !.j = st.j + 1]

\* while ((ops[j].spos != sub[i].spos || ops[j].dpos != sub[i].dpos
\*         || ops[j].type != sub[i].type) && j < n): the condition reads ops[j]
\* before it compares j with n, so that with j = n it reads behind the array;
\* whatever it reads there the loop ends, and readpast records the read.
\* Nothing is read after a store through NULL.
RECURSIVE SubtractScan(_, _, _, _)
SubtractScan(script, n, target, st) ==
  IF st.nullwrite THEN st
  ELSE IF st.j >= n THEN [st EXCEPT !.readpast = TRUE]
  ELSE IF script[st.j] = target THEN st
  ELSE SubtractScan(script, n, target, Remainder(st, script[st.j]))

\* for (i = 0; i < ns; i++) of lev_editops_subtract, with if (j == n)
\* { free(rem); return NULL; } and shift += shifts[sub[i].type]; j++, and the
\* loop while (j < n) that follows it
RECURSIVE SubtractLoop(_, _, _, _, _, _)
SubtractLoop(script, n, part, ns, i, st) ==
  IF st.nullwrite THEN st
  ELSE IF i >= ns
  THEN (IF st.j >= n THEN st
        ELSE SubtractLoop(script, n, part, ns, i, Remainder(st, script[st.j])))
  ELSE LET found == SubtractScan(script, n, part[i], st)
       IN IF found.nullwrite THEN found
          ELSE IF found.j = n THEN [found EXCEPT !.failed = TRUE]
          ELSE SubtractLoop(script, n, part, ns, i + 1,
                 [found EXCEPT !.shift = found.shift + shifts[part[i].type],
                               !.j = found.j + 1])

\* lev_editops_subtract(n, ops, ns, sub, nrem): rem is the array returned
\* (the empty array for NULL), nrem the number stored in *nrem, -1 for
\* (size_t)-1; NonKeep counts the operations that are not keep
lev_editops_subtract(n, script, ns, part) ==
  LET NonKeep(s, m) == Cardinality({k \in 0..(m - 1) : s[k].type # LEV_EDIT_KEEP})
      st == SubtractLoop(script, n, part, ns, 0,
                         [j |-> 0, nn |-> 0, shift |-> 0,
                          nr |-> NonKeep(script, n) - NonKeep(part, ns),
                          rem |-> << >>, readpast |-> FALSE,
                          overrun |-> FALSE, nullwrite |-> FALSE,
                          failed |-> FALSE])
  IN IF NonKeep(part, ns) > NonKeep(script, n)
     THEN [rem |-> << >>, nrem |-> -1, nn |-> NonKeep(part, ns),
           readpast |-> FALSE, overrun |-> FALSE, nullwrite |-> FALSE]
     ELSE [rem |-> IF st.failed \/ st.nullwrite THEN << >> ELSE Array(st.rem),
           nrem |-> IF st.failed \/ st.nullwrite THEN -1 ELSE st.nr,
           nn |-> st.nn, readpast |-> st.readpast, overrun |-> st.overrun,
           nullwrite |-> st.nullwrite]

(***************************************************************************)
(* Specification SpecScripts: the script lev_editops_find returns for two  *)
(* strings, with any of the keep operations of its alignment added, goes   *)
(* through the conversions, the checks, the inversions, the matching       *)
(* blocks and the subtraction.                                             *)
(***************************************************************************)
ScriptStrings == SeqsUpTo(Symbols, MaxScriptLen)

\* cnt keep operations from (sp, dp) on
KeepRun(sp, dp, cnt) ==
  [t \in 1..cnt |-> EditOp(LEV_EDIT_KEEP, sp + t - 1, dp + t - 1)]

\* the script with a keep operation for every symbol it leaves alone
RECURSIVE WithKeeps(_, _, _, _, _, _)
WithKeeps(script, n, k, sp, dp, len1) ==
  IF k >= n THEN KeepRun(sp, dp, len1 - sp)
  ELSE KeepRun(sp, dp, script[k].spos - sp) \o <<script[k]>>
       \o WithKeeps(script, n, k + 1,
                    script[k].spos
                      + (IF script[k].type = LEV_EDIT_INSERT THEN 0 ELSE 1),
                    script[k].dpos
                      + (IF script[k].type = LEV_EDIT_DELETE THEN 0 ELSE 1),
                    len1)

\* the elements of s at the indices in chosen, in their order
Pick(s, chosen) ==
  [t \in 1..Cardinality(chosen) |->
     s[CHOOSE x \in chosen : Cardinality({y \in chosen : y <= x}) = t]]

\* the scripts that differ from full only in the keep operations they hold
KeepVariants(full) ==
  {Array(Pick(full, {x \in DOMAIN full : full[x].type # LEV_EDIT_KEEP} \cup some)) :
     some \in SUBSET {x \in DOMAIN full : full[x].type = LEV_EDIT_KEEP}}

\* the scripts of the specification for the strings s1 and s2
ScriptsOf(s1, s2, found) ==
  KeepVariants(WithKeeps(found.ops, Cardinality(DOMAIN found.ops), 0, 0, 0,
                         Len(s1)))

InitScripts ==
  /\ pc = "sc_call"
  /\ str1 \in ScriptStrings /\ str2 \in ScriptStrings
  /\ ops \in ScriptsOf(str1, str2, lev_editops_find(str1, str2, 0))
  /\ nops = Cardinality(DOMAIN ops)
  /\ xcost = 0 /\ junk = 1000 /\ dist = 0 /\ udist = 0
  /\ elen1 = 0 /\ elen2 = 0 /\ eoff = 0 /\ matrix = << >>
  /\ bti = 0 /\ btj = 0 /\ dir = 0 /\ pos = 0 /\ applied = << >>
  /\ ScriptIdle
  /\ GenMedianIdle
  /\ MedianIdle
  /\ MunkresIdle
  /\ CollIdle

otherThanScripts ==
  <<distVars, medianVars, munkresVars, collVars, gmedVars, elen1, elen2, eoff,
    matrix, bti, btj, dir, pos, ops, nops>>

\* lev_editops_check_errors(len1, len2, n, ops), after which the caller hands
\* an accepted script to lev_editops_to_opcodes
EditopsCheckErrors ==
  /\ pc = "ec_call"
  /\ operr' = lev_editops_check_errors(Len(str1), Len(str2), nops, ops)
  /\ pc' = IF operr' = LevEditOpError.OK THEN "sc_call" ELSE "ec_rejected"
  /\ UNCHANGED <<otherThanScripts, applied, bops, nb, rops, norm, inv, binv,
                 mblocks, bmblocks, sub, rem, nrem, subrun>>

\* bops = lev_editops_to_opcodes(n, ops, &nb, len1, len2); a false assertion
\* ends the process
EditopsToOpcodes ==
  /\ pc = "sc_call"
  /\ \E r \in {lev_editops_to_opcodes(nops, ops, Len(str1), Len(str2))} :
       /\ bops' = r.bops /\ nb' = r.nbl
       /\ pc' = IF r.gapfits /\ r.written = r.nbl THEN "oc_done" ELSE "oc_abort"
  /\ UNCHANGED <<otherThanScripts, applied, rops, norm, operr, inv, binv,
                 mblocks, bmblocks, sub, rem, nrem, subrun>>

\* lev_opcodes_to_editops(nb, bops, &n, 0)
OpcodesToEditops ==
  /\ pc = "oc_done"
  /\ rops' = lev_opcodes_to_editops(nb, bops, 0)
  /\ pc' = "oe_done"
  /\ UNCHANGED <<otherThanScripts, applied, bops, nb, norm, operr, inv, binv,
                 mblocks, bmblocks, sub, rem, nrem, subrun>>

\* lev_editops_normalize(n, ops, &nnorm)
EditopsNormalize ==
  /\ pc = "oe_done"
  /\ norm' = lev_editops_normalize(nops, ops)
  /\ pc' = "en_done"
  /\ UNCHANGED <<otherThanScripts, applied, bops, nb, rops, operr, inv, binv,
                 mblocks, bmblocks, sub, rem, nrem, subrun>>

\* lev_opcodes_check_errors(len1, len2, nb, bops)
OpcodesCheckErrors ==
  /\ pc = "en_done"
  /\ operr' = lev_opcodes_check_errors(Len(str1), Len(str2), nb, bops)
  /\ pc' = "ck_done"
  /\ UNCHANGED <<otherThanScripts, applied, bops, nb, rops, norm, inv, binv,
                 mblocks, bmblocks, sub, rem, nrem, subrun>>

\* lev_editops_invert(n, ops) on a copy of the script, and once more on the
\* inverted copy
EditopsInvert ==
  /\ pc \in {"ck_done", "eia_done"}
  /\ inv' = lev_editops_invert(nops, IF pc = "ck_done" THEN ops ELSE inv)
  /\ pc' = IF pc = "ck_done" THEN "ei_done" ELSE "ei2_done"
  /\ UNCHANGED <<otherThanScripts, applied, bops, nb, rops, norm, operr, binv,
                 mblocks, bmblocks, sub, rem, nrem, subrun>>

\* lev_editops_apply with the inverted script, from string2 to string1
EditopsApplyInverted ==
  /\ pc = "ei_done"
  /\ applied' = lev_editops_apply(str2, str1, nops, inv)
  /\ pc' = "eia_done"
  /\ UNCHANGED <<otherThanScripts, scriptVars>>

\* lev_opcodes_invert(nb, bops) on a copy of the blocks, and once more on the
\* inverted copy
OpcodesInvert ==
  /\ pc \in {"ei2_done", "oia_done"}
  /\ binv' = lev_opcodes_invert(nb, IF pc = "ei2_done" THEN bops ELSE binv)
  /\ pc' = IF pc = "ei2_done" THEN "oi_done" ELSE "oi2_done"
  /\ UNCHANGED <<otherThanScripts, applied, bops, nb, rops, norm, operr, inv,
                 mblocks, bmblocks, sub, rem, nrem, subrun>>

\* lev_opcodes_apply with the inverted blocks, from string2 to string1
OpcodesApplyInverted ==
  /\ pc = "oi_done"
  /\ applied' = lev_opcodes_apply(str2, str1, nb, binv, junk)
  /\ pc' = "oia_done"
  /\ UNCHANGED <<otherThanScripts, scriptVars>>

\* lev_editops_matching_blocks(len1, len2, n, ops, &nmblocks)
EditopsMatchingBlocks ==
  /\ pc = "oi2_done"
  /\ mblocks' = lev_editops_matching_blocks(Len(str1), Len(str2), nops, ops)
  /\ pc' = "em_done"
  /\ UNCHANGED <<otherThanScripts, applied, bops, nb, rops, norm, operr, inv,
                 binv, bmblocks, sub, rem, nrem, subrun>>

\* lev_opcodes_matching_blocks(len1, len2, nb, bops, &nmblocks)
OpcodesMatchingBlocks ==
  /\ pc = "em_done"
  /\ bmblocks' = lev_opcodes_matching_blocks(Len(str1), Len(str2), nb, bops)
  /\ pc' = "om_done"
  /\ UNCHANGED <<otherThanScripts, applied, bops, nb, rops, norm, operr, inv,
                 binv, mblocks, sub, rem, nrem, subrun>>

\* lev_editops_apply with a part of the script, an ordered subset sub of ops
EditopsApplyPart ==
  /\ pc = "om_done"
  /\ \E chosen \in SUBSET DOMAIN ops :
       sub' = Array(Pick([x \in 1..nops |-> ops[x - 1]], {x + 1 : x \in chosen}))
  /\ applied' = lev_editops_apply(str1, str2, Cardinality(DOMAIN sub'), sub')
  /\ pc' = "pa_done"
  /\ UNCHANGED <<otherThanScripts, bops, nb, rops, norm, operr, inv, binv,
                 mblocks, bmblocks, rem, nrem, subrun>>

\* rem = lev_editops_subtract(n, ops, ns, sub, &nrem)
\* A write to rem[nn] with nn >= nr is outside the allocated array: with
\* nr == 0 it is a write through NULL, which ends the process; with nr > 0 it
\* is a write behind the heap block, after which the process may end (at the
\* free) or go on.  The read of ops[n] is a read behind the caller's array:
\* it ends the process where that memory cannot be read, and the call goes
\* on where it can.
EditopsSubtract ==
  /\ pc = "pa_done"
  /\ \E r \in {lev_editops_subtract(nops, ops, Cardinality(DOMAIN sub), sub)} :
       /\ rem' = r.rem /\ nrem' = r.nrem
       /\ subrun' = [readpast |-> r.readpast, overrun |-> r.overrun,
                     nullwrite |-> r.nullwrite]
       /\ pc' \in (IF r.nullwrite THEN {"es_crash"}
                   ELSE IF r.overrun \/ r.readpast THEN {"es_crash", "es_done"}
                   ELSE {"es_done"})
  /\ UNCHANGED <<otherThanScripts, applied, bops, nb, rops, norm, operr, inv,
                 binv, mblocks, bmblocks, sub>>

\* lev_editops_apply with the remainder, on the string the part gave
EditopsApplyRemainder ==
  /\ pc = "es_done"
  /\ nrem # -1
  /\ applied' = lev_editops_apply(applied, str2, nrem, rem)
  /\ pc' = "ra_done"
  /\ UNCHANGED <<otherThanScripts, scriptVars>>

NextScripts ==
  \/ EditopsToOpcodes
  \/ OpcodesToEditops
  \/ EditopsNormalize
  \/ OpcodesCheckErrors
  \/ EditopsInvert
  \/ EditopsApplyInverted
  \/ OpcodesInvert
  \/ OpcodesApplyInverted
  \/ EditopsMatchingBlocks
  \/ OpcodesMatchingBlocks
  \/ EditopsApplyPart
  \/ EditopsSubtract
  \/ EditopsApplyRemainder

SpecScripts == InitScripts /\ [][NextScripts]_vars

\* C11: for a complete script, the output of lev_editops_find with or without
\* keep operations added, converting to block operations and back with
\* keepkeep = 0 gives the operations lev_editops_normalize gives, element for
\* element and in the same number.
C11_RoundTripIsNormalize ==
  pc = "en_done" => (rops.n = norm.n /\ rops.ops = norm.ops)

\* a script with keep operations and two operations of one type that do not
\* touch has gone both ways
C11_Witness ==
  /\ pc = "en_done"
  /\ \E k \in DOMAIN ops : ops[k].type = LEV_EDIT_KEEP
  /\ \E k \in DOMAIN ops : \E l \in DOMAIN ops :
       /\ k < l /\ ops[k].type = ops[l].type /\ ops[k].type # LEV_EDIT_KEEP
       /\ ops[l].spos > ops[k].spos + 1
  /\ rops.n >= 2 /\ rops.ops = norm.ops

\* C12: for strings a and b that are not both empty, the block operations
\* made of the script of lev_editops_find(a, b) cover both strings: they
\* start at (0, 0), end at (|a|, |b|), each block starts where the one before
\* ends, keep and replace blocks have equal non-empty spans, insert blocks an
\* empty source span and a non-empty destination span, delete blocks the
\* reverse; lev_opcodes_check_errors accepts them.
C12_OpcodesAreValidCover ==
  (pc = "ck_done" /\ (Len(str1) > 0 \/ Len(str2) > 0)) =>
    /\ nb >= 1 /\ DOMAIN bops = 0..(nb - 1)
    /\ bops[0].sbeg = 0 /\ bops[0].dbeg = 0
    /\ bops[nb - 1].send = Len(str1) /\ bops[nb - 1].dend = Len(str2)
    /\ \A k \in 1..(nb - 1) :
         bops[k].sbeg = bops[k - 1].send /\ bops[k].dbeg = bops[k - 1].dend
    /\ \A k \in 0..(nb - 1) :
         /\ bops[k].type \in {LEV_EDIT_KEEP, LEV_EDIT_REPLACE} =>
              /\ bops[k].send - bops[k].sbeg = bops[k].dend - bops[k].dbeg
              /\ bops[k].send > bops[k].sbeg
         /\ bops[k].type = LEV_EDIT_INSERT =>
              bops[k].send = bops[k].sbeg /\ bops[k].dend > bops[k].dbeg
         /\ bops[k].type = LEV_EDIT_DELETE =>
              bops[k].send > bops[k].sbeg /\ bops[k].dend = bops[k].dbeg
    /\ operr = LevEditOpError.OK

\* a list of four or more blocks with a keep block at its end, found for a
\* script without keep operations, has been checked
C12_Witness ==
  /\ pc = "ck_done" /\ nb >= 4
  /\ \A k \in DOMAIN ops : ops[k].type # LEV_EDIT_KEEP
  /\ bops[nb - 1].type = LEV_EDIT_KEEP
  /\ \E k \in DOMAIN bops : bops[k].type = LEV_EDIT_INSERT
  /\ operr = 0

\* C13: after lev_editops_invert the script, applied to b with a as the
\* destination, yields a, and a second inversion gives back the script as it
\* was; the same holds of lev_opcodes_invert and lev_opcodes_apply.
C13_InversionReversesTheEdit ==
  /\ pc = "eia_done" => applied = str1
  /\ pc = "ei2_done" => inv = ops
  /\ pc = "oia_done" => applied = str1
  /\ pc = "oi2_done" => binv = bops

\* blocks with an insertion and a deletion have been inverted twice, after
\* their inverse took string2 back to a different string1
C13_Witness ==
  /\ pc = "oi2_done" /\ str1 # str2 /\ applied = str1 /\ inv = ops
  /\ \E k \in DOMAIN bops : bops[k].type = LEV_EDIT_INSERT
  /\ \E k \in DOMAIN bops : bops[k].type = LEV_EDIT_DELETE
  /\ \E k \in DOMAIN ops : ops[k].type = LEV_EDIT_INSERT
  /\ binv = bops

\* the sum of the lengths of the matching blocks in the array blocks
RECURSIVE SumOfLengths(_, _)
SumOfLengths(blocks, k) ==
  IF k \notin DOMAIN blocks THEN 0
  ELSE blocks[k].len + SumOfLengths(blocks, k + 1)

\* C14: every block lev_editops_matching_blocks returns for the script of a
\* and b names equal pieces, a[spos .. spos+len) = b[dpos .. dpos+len); the
\* lengths of the blocks, the replace and the delete operations add up to
\* |a|; lev_opcodes_matching_blocks returns the same blocks for the block
\* operations made of the script.
C14_MatchingBlocksMatch ==
  /\ pc \in {"em_done", "om_done"} =>
       /\ DOMAIN mblocks.mblocks = 0..(mblocks.nmb - 1)
       /\ \A k \in DOMAIN mblocks.mblocks :
            /\ mblocks.mblocks[k].spos + mblocks.mblocks[k].len <= Len(str1)
            /\ mblocks.mblocks[k].dpos + mblocks.mblocks[k].len <= Len(str2)
            /\ Sub(str1, mblocks.mblocks[k].spos, mblocks.mblocks[k].len)
                 = Sub(str2, mblocks.mblocks[k].dpos, mblocks.mblocks[k].len)
       /\ SumOfLengths(mblocks.mblocks, 0)
            + Cardinality({k \in DOMAIN ops :
                 ops[k].type \in {LEV_EDIT_REPLACE, LEV_EDIT_DELETE}})
          = Len(str1)
  /\ pc = "om_done" => bmblocks = mblocks

\* two or more matching blocks, one of them at different places of the two
\* strings, have been computed both ways
C14_Witness ==
  /\ pc = "om_done" /\ mblocks.nmb >= 2 /\ bmblocks.nmb >= 2
  /\ \E k \in DOMAIN mblocks.mblocks :
       mblocks.mblocks[k].spos # mblocks.mblocks[k].dpos
  /\ \E k \in DOMAIN ops : ops[k].type = LEV_EDIT_REPLACE
  /\ bmblocks.mblocks = mblocks.mblocks

\* C15: for the script A of lev_editops_find(a, b) and every ordered subset S
\* of it, lev_editops_subtract(A, S) succeeds and its remainder, applied to
\* the string S makes of a, with b as the destination, yields b.
C15_RemainderCompletesTheEdit ==
  /\ pc = "es_done" => (nrem # -1 /\ DOMAIN rem = 0..(nrem - 1))
  /\ pc = "ra_done" => applied = str2

\* a part with an insertion has been taken out of a script without keep
\* operations, and the remainder of two or more operations has been applied
C15_Witness ==
  /\ pc = "ra_done" /\ nrem >= 2 /\ applied = str2
  /\ \A k \in DOMAIN ops : ops[k].type # LEV_EDIT_KEEP
  /\ \E k \in DOMAIN sub : sub[k].type = LEV_EDIT_INSERT
  /\ \E k \in DOMAIN rem : rem[k].spos # ops[k + nops - nrem].spos

(***************************************************************************)
(* Generalized medians: lev_greedy_median, lev_median_improve and          *)
(* lev_quick_median                                                        *)
(***************************************************************************)
\* most strings of a collection
MaxMedStrings == 2

\* longest string of a collection
MaxMedLen == 2

\* largest weight of a string of a collection
MaxMedWeight == 2

\* most strings of a collection in a call in which an allocation fails
MaxFailStrings == 1

\* the symbols present in the n strings, in ascending order, with their
\* number; no list and the number (size_t)(-1), here -1, when the allocation
\* named by fail fails, and no list and the number 0 when all strings are
\* empty
make_symlist(n, strs, fail) ==
  LET symset == UNION {{At(At(strs, i), j) : j \in 0..(Len(At(strs, i)) - 1)}
                       : i \in 0..(n - 1)}
      symlistlen == Cardinality(symset)
  IN IF fail = "symset" THEN [symlist |-> << >>, symlistlen |-> -1]
     ELSE IF symlistlen = 0 THEN [symlist |-> << >>, symlistlen |-> 0]
     ELSE IF fail = "symlist" THEN [symlist |-> << >>, symlistlen |-> -1]
     ELSE [symlist |->
             CHOOSE f \in [0..(symlistlen - 1) -> symset] :
                \A a, b \in 0..(symlistlen - 1) : a < b => f[a] < f[b],
           symlistlen |-> symlistlen]

\* for (k = 1; k <= leni; k++) and the memcpy: the row of the Levenshtein
\* matrix that follows oldrow when the median gets symbol appended, with
\* row[0] = first
MatrixRow(stri, leni, oldrow, symbol, first) ==
  LET row[k \in 0..leni] ==
        IF k = 0 THEN first
        ELSE LET c1 == oldrow[k] + 1
                 c2 == row[k - 1] + 1
                 c3 == oldrow[k - 1] + (IF symbol # At(stri, k - 1) THEN 1 ELSE 0)
             IN Min2(Min2(c2, c3), c1)
  IN [k \in 0..leni |-> row[k]]

\* for (i = 0; i < n; i++) inside the loop over the symbols: minsum and
\* totaldist of the candidate symbol. GreedyRow is while (p < end): the last
\* element x and the smallest element min of the row string stri would get
\* with symbol appended
GreedyCandidate(n, strs, wts, rws, len, symbol) ==
  LET GreedyRow(stri, leni, rowi) ==
        LET c[k \in 0..leni] ==
              IF k = 0 THEN [x |-> len, min |-> len]
              ELSE LET D == rowi[k - 1]
                              + (IF symbol # At(stri, k - 1) THEN 1 ELSE 0)
                       before == c[k - 1]
                       x == Min2(Min2(before.x + 1, D), rowi[k] + 1)
                   IN [x |-> x, min |-> Min2(x, before.min)]
        IN c[leni]
      s[i \in 0..n] ==
        IF i = 0 THEN [minsum |-> 0, totaldist |-> 0]
        ELSE LET r == GreedyRow(At(strs, i - 1), Len(At(strs, i - 1)),
                                rws[i - 1])
                 before == s[i - 1]
             IN [minsum |-> before.minsum + r.min * At(wts, i - 1),
                 totaldist |-> before.totaldist + r.x * At(wts, i - 1)]
  IN s[n]

\* for (j = 0; j < symlistlen; j++): the symbol with the smallest minsum, the
\* first one among equals, and its totaldist; before, mediandist[len] and
\* median[len - 1] hold what malloc left there
GreedyBest(n, strs, wts, rws, len, symlist, symlistlen, uninit) ==
  LET b[j \in 0..symlistlen] ==
        IF j = 0
        THEN [minminsum |-> LEV_INFINITY, dist |-> uninit, symbol |-> uninit]
        ELSE LET c == GreedyCandidate(n, strs, wts, rws, len, symlist[j - 1])
                 before == b[j - 1]
             IN IF c.minsum < before.minminsum
                THEN [minminsum |-> c.minsum, dist |-> c.totaldist,
                      symbol |-> symlist[j - 1]]
                ELSE before
  IN b[symlistlen]

RECURSIVE GreedyLoop(_, _, _, _, _, _, _, _)
\* the rest of one pass of for (len = 1; len <= stoplen; len++) once the best
\* symbol is known: the break, or the new rows and the next pass
GreedyPass(n, strs, wts, symlist, symlistlen, maxlen, uninit, st, best) ==
  LET len == st.len
      stored == [st EXCEPT !.mediandist[len] = best.dist,
                           !.median[len - 1] = best.symbol]
  IN IF \/ len = st.stoplen
        \/ (len > maxlen /\ best.dist > st.mediandist[len - 1])
     THEN [stored EXCEPT !.stoplen = len]
     ELSE GreedyLoop(n, strs, wts, symlist, symlistlen, maxlen, uninit,
            [stored EXCEPT
               !.len = len + 1,
               !.rows = [i \in 0..(n - 1) |->
                           MatrixRow(At(strs, i), Len(At(strs, i)),
                                     st.rows[i], best.symbol, len)]])

\* for (len = 1; len <= stoplen; len++)
GreedyLoop(n, strs, wts, symlist, symlistlen, maxlen, uninit, st) ==
  IF st.len > st.stoplen THEN st
  ELSE GreedyPass(n, strs, wts, symlist, symlistlen, maxlen, uninit, st,
                  GreedyBest(n, strs, wts, st.rows, st.len, symlist,
                             symlistlen, uninit))

\* the mutant of BestLength that takes the last length, not the best
BestLength_Last(mediandist, stoplen) == stoplen

\* for (len = 1; len <= stoplen; len++) after the passes: bestlen
BestLength(mediandist, stoplen) ==
  LET b[len \in 0..stoplen] ==
        IF len = 0 THEN 0
        ELSE LET before == b[len - 1]
             IN IF mediandist[len] < mediandist[before] THEN len ELSE before
  IN b[stoplen]

\* the length of the longest of the n strings
MaxLength(n, strs) ==
  LET m[i \in 0..n] ==
        IF i = 0 THEN 0
        ELSE LET before == m[i - 1]
             IN IF Len(At(strs, i - 1)) > before THEN Len(At(strs, i - 1))
                ELSE before
  IN m[n]

\* sum of lengths[i]*weights[i]
WeightedLength(n, strs, wts) ==
  LET s[i \in 0..n] ==
        IF i = 0 THEN 0 ELSE s[i - 1] + Len(At(strs, i - 1)) * At(wts, i - 1)
  IN s[n]

\* what lev_greedy_median leaves once the symbol list is there: the value
\* returned, *medlength (prior is what the caller had there) and the string
GreedyResult(n, strs, wts, fail, prior, uninit, sl, maxlen) ==
  IF fail \in {"rows", "rows[i]", "row", "median", "mediandist"}
  THEN [returned |-> "null", medlength |-> prior, result |-> << >>]
  ELSE LET stoplen == 2 * maxlen + 1
           done == GreedyLoop(n, strs, wts, sl.symlist, sl.symlistlen, maxlen,
                     uninit,
                     [len |-> 1, stoplen |-> stoplen,
                      rows |-> [i \in 0..(n - 1) |->
                                  [j \in 0..Len(At(strs, i)) |-> j]],
                      median |-> [k \in 0..(stoplen - 1) |-> uninit],
                      mediandist |-> [k \in 0..stoplen |->
                         IF k = 0 THEN WeightedLength(n, strs, wts)
                         ELSE uninit]])
           bestlen == BestLength(done.mediandist, done.stoplen)
       IN IF fail = "result"
          THEN [returned |-> "null", medlength |-> prior, result |-> << >>]
          ELSE [returned |-> "buffer", medlength |-> bestlen,
                result |-> [k \in 1..bestlen |-> done.median[k - 1]]]

\* lev_greedy_median(n, lengths, strings, weights, medlength) with the
\* allocation named by fail failing; "empty" is the calloc(1, 1) of the
\* empty result
lev_greedy_median(n, strs, wts, fail, prior, uninit) ==
  LET sl == make_symlist(n, strs, fail)
  IN IF sl.symlist = << >>
     THEN [returned |-> IF sl.symlistlen # 0 \/ fail = "empty" THEN "null"
                        ELSE "buffer",
           medlength |-> 0, result |-> << >>]
     ELSE GreedyResult(n, strs, wts, fail, prior, uninit, sl,
                       MaxLength(n, strs))

(***************************************************************************)
(* Specification SpecGreedyMedian: one call of lev_greedy_median           *)
(***************************************************************************)
MedStrings == SeqsUpTo(Symbols, MaxMedLen)

\* the collections and weight vectors the calls are drawn from
MedCollections == SeqsUpTo(MedStrings, MaxMedStrings)
MedWeights == SeqsUpTo(0..MaxMedWeight, MaxMedStrings)

\* what the caller may have in the variable medlength points to
CallerLengths == {0, 99}

\* the allocations a call of lev_greedy_median or lev_median_improve with
\* these strings makes; more are those only one of the two makes. Without a
\* symbol in the strings the call allocates symset and the empty result.
MedianAllocations(strs, more) ==
  IF \A i \in 1..Len(strs) : strs[i] = << >> THEN {"symset", "empty"}
  ELSE {"symset", "symlist", "rows", "rows[i]", "row", "median", "result"}
       \cup more

\* the arguments of a call; junk is what malloc leaves in a fresh buffer
InitGreedyMedian ==
  /\ pc = "gm_call"
  /\ strings \in MedCollections
  /\ weights \in {w \in MedWeights : Len(w) = Len(strings)}
  /\ failat \in {"none"} \cup (IF Len(strings) <= MaxFailStrings
                               THEN MedianAllocations(strings, {"mediandist"})
                               ELSE {})
  /\ medlength \in CallerLengths
  /\ junk = 1000
  /\ str1 = << >> /\ str2 = << >> /\ xcost = 0 /\ dist = 0 /\ udist = 0
  /\ distances = << >> /\ smi = 0 /\ mindist = 0 /\ minidx = 0 /\ median = 0
  /\ initial = << >> /\ medbuf = << >> /\ returned = ""
  /\ medlen = 0 /\ mpos = 0 /\ mrows = << >> /\ minminsum = 0
  /\ MunkresIdle
  /\ CollIdle
  /\ EditIdle
  /\ ScriptIdle

otherThanMedians == <<str1, str2, xcost, junk, dist, udist, strings, weights, distances,
                      smi, mindist, minidx, median, munkresVars, collVars,
                      editVars, scriptVars>>

\* median = lev_greedy_median(n, lengths, strings, weights, &medlength)
GreedyMedian ==
  /\ pc = "gm_call"
  /\ \E r \in {lev_greedy_median(Len(strings), strings, weights, failat,
                                 medlength, junk)} :
        /\ medbuf' = r.result
        /\ medlength' = r.medlength
        /\ returned' = r.returned
  /\ pc' = "gm_done"
  /\ UNCHANGED <<otherThanMedians, initial, failat, medlen, mpos, mrows,
                 minminsum>>

NextGreedyMedian == GreedyMedian

SpecGreedyMedian == InitGreedyMedian /\ [][NextGreedyMedian]_vars

\* the weighted sum of the unit-cost distances from the string m to the strings
SumOfDistancesTo(m, strs, wts) ==
  LET s[j \in 0..Len(strs)] ==
        IF j = 0 THEN 0 ELSE s[j - 1] + wts[j] * EditCost(m, strs[j], 1)
  IN s[Len(strs)]

\* C16: for every non-empty collection with non-negative weights the string m
\* lev_greedy_median returns has a weighted sum of distances to the strings
\* that is at most the sum of len_i * w_i, the one of the empty string, and
\* its length lies in [0, 2*maxlen + 1].
C16_GreedyNoWorseThanEmpty ==
  (pc = "gm_done" /\ Len(strings) > 0 /\ returned = "buffer") =>
    /\ medlength = Len(medbuf)
    /\ SumOfDistancesTo(medbuf, strings, weights)
         <= WeightedLength(Len(strings), strings, weights)
    /\ medlength >= 0
    /\ medlength <= 2 * MaxLength(Len(strings), strings) + 1

\* a call that returned a median that is better than the empty string
C16_Witness ==
  /\ pc = "gm_done" /\ Len(strings) > 1 /\ returned = "buffer"
  /\ medlength > 0
  /\ SumOfDistancesTo(medbuf, strings, weights)
       < WeightedLength(Len(strings), strings, weights)

(***************************************************************************)
(* lev_median_improve                                                      *)
(***************************************************************************)
\* longest string s handed to lev_median_improve
MaxInitialLen == 4

\* while (p <= end) of finish_distance_computations: the row after the symbol
\* char1, where D = x = first = i + offset at the start; row[0] is not written
FinishRow(char1, stringi, leni, row, first) ==
  LET x[k \in 0..leni] ==
        IF k = 0 THEN first
        ELSE LET c3 == (IF k = 1 THEN first - 1 ELSE row[k - 1])
                         + (IF char1 # stringi[k] THEN 1 ELSE 0)
             IN Min2(Min2(x[k - 1] + 1, c3), row[k] + 1)
  IN [k \in 0..leni |-> IF k = 0 THEN row[0] ELSE x[k]]

\* for (i = 1; i <= len; i++) of finish_distance_computations, and *end
RECURSIVE FinishRows(_, _, _, _, _, _, _)
FinishRows(string1, len, stringi, leni, offset, row, i) ==
  IF i > len THEN row[leni]
  ELSE FinishRows(string1, len, stringi, leni, offset,
                  FinishRow(string1[i], stringi, leni, row, i + offset), i + 1)

\* one pass of for (j = 0; j < n; j++) of finish_distance_computations: the
\* distance from the median whose rest is string1 to the string stringi;
\* common[k] counts the passes of
\* while (len && leni && stringi[leni-1] == string1[len-1])
FinishString(string1, len1, stringi, lengthi, rowi) ==
  LET common[k \in 0..len1] ==
        IF k = 0 THEN 0
        ELSE IF common[k - 1] = k - 1 /\ lengthi >= k
                /\ stringi[lengthi - k + 1] = string1[len1 - k + 1]
             THEN k ELSE common[k - 1]
      stripped == common[len1]
      len == len1 - stripped
      leni == lengthi - stripped
  IN IF len = 0 THEN rowi[leni]
     ELSE IF leni = 0 THEN rowi[0] + len
     ELSE FinishRows(string1, len, stringi, leni, rowi[0], rowi, 1)

\* finish_distance_computations(len1, string1, n, lengths, strings, weights,
\* rows, row)
finish_distance_computations(len1, string1, n, strs, wts, rws) ==
  LET distsum[j \in 0..n] ==
        IF j = 0 THEN 0
        ELSE distsum[j - 1]
             + At(wts, j - 1)
               * (IF len1 = 0 THEN rws[j - 1][Len(At(strs, j - 1))]
                  ELSE FinishString(string1, len1, At(strs, j - 1),
                                    Len(At(strs, j - 1)), rws[j - 1]))
  IN distsum[n]

\* the count symbols median[from], median[from + 1], ... as a string; a
\* place nothing was stored in holds what malloc left there
Mid(buf, from, count, uninit) ==
  [k \in 1..count |->
     IF from + k - 1 \in DOMAIN buf THEN buf[from + k - 1] ELSE uninit]

\* the three searches of one pass of for (pos = 0; pos <= medlen; ): the best
\* replacement of the symbol at pos, the best insertion before it, and its
\* deletion; gives the new minminsum, the symbol and the operation
Perturbation(n, strs, wts, symlist, symlistlen, st, uninit) ==
  LET ps == st.pos
      mlen == st.medlen
      orig_symbol == Mid(st.median, ps, 1, uninit)[1]
      rest == Mid(st.median, ps, mlen - ps, uninit)
      Try(best, sum, symbol, operation) ==
        IF sum < best.minminsum
        THEN [minminsum |-> sum, symbol |-> symbol, operation |-> operation]
        ELSE best
      replaced[j \in 0..symlistlen] ==
        IF j = 0
        THEN [minminsum |-> st.minminsum, symbol |-> orig_symbol,
              operation |-> LEV_EDIT_KEEP]
        ELSE IF ps >= mlen \/ symlist[j - 1] = orig_symbol
             THEN replaced[j - 1]
        ELSE Try(replaced[j - 1],
                 finish_distance_computations(mlen - ps,
                   <<symlist[j - 1]>> \o Sub(rest, 1, mlen - ps - 1),
                   n, strs, wts, st.rows),
                 symlist[j - 1], LEV_EDIT_REPLACE)
      inserted[j \in 0..symlistlen] ==
        IF j = 0 THEN replaced[symlistlen]
        ELSE Try(inserted[j - 1],
                 finish_distance_computations(mlen - ps + 1,
                   <<symlist[j - 1]>> \o rest, n, strs, wts, st.rows),
                 symlist[j - 1], LEV_EDIT_INSERT)
  IN IF ps < mlen
     THEN Try(inserted[symlistlen],
              finish_distance_computations(mlen - ps - 1,
                Sub(rest, 1, mlen - ps - 1), n, strs, wts, st.rows),
              inserted[symlistlen].symbol, LEV_EDIT_DELETE)
     ELSE inserted[symlistlen]

\* switch (operation): the buffer and medlen after the operation
Perform(st, best) ==
  LET ps == st.pos
      mlen == st.medlen
      buf == st.median
  IN IF best.operation = LEV_EDIT_REPLACE
     THEN [st EXCEPT !.median[ps] = best.symbol,
                     !.minminsum = best.minminsum]
     ELSE IF best.operation = LEV_EDIT_INSERT
     THEN [st EXCEPT
             !.median = [k \in (DOMAIN buf) \cup {mlen} |->
                           IF k = ps THEN best.symbol
                           ELSE IF k > ps /\ k <= mlen THEN buf[k - 1]
                           ELSE buf[k]],
             !.medlen = mlen + 1,
             !.minminsum = best.minminsum]
     ELSE IF best.operation = LEV_EDIT_DELETE
     THEN [st EXCEPT
             !.median = [k \in DOMAIN buf |->
                           IF k >= ps /\ k < mlen - 1 THEN buf[k + 1]
                           ELSE buf[k]],
             !.medlen = mlen - 1,
             !.minminsum = best.minminsum]
     ELSE st

\* if (operation != LEV_EDIT_DELETE): the rows for the median up to pos
\* included, and pos++
Advance(n, strs, st, operation, uninit) ==
  IF operation = LEV_EDIT_DELETE THEN st
  ELSE [st EXCEPT
          !.rows = [i \in 0..(n - 1) |->
                      MatrixRow(At(strs, i), Len(At(strs, i)), st.rows[i],
                                Mid(st.median, st.pos, 1, uninit)[1],
                                st.pos + 1)],
          !.pos = st.pos + 1]

(***************************************************************************)
(* Specification SpecMedianImprove: one call of lev_median_improve, a pass *)
(* of its loop at a time                                                   *)
(***************************************************************************)
InitialStrings == SeqsUpTo(Symbols, MaxInitialLen)

\* the bytes the memory may hold where the code did not write: a symbol of
\* the strings or another byte
StrayBytes == Symbols \cup {255}

\* the calls that fill the buffer: one string of LongLen different symbols,
\* and the initial strings of 2*LongLen + 1 of these symbols, which are the
\* longest that fit the buffer
LongLen == 3

LongSymbols == 0..(LongLen - 1)

LongCollections == {<<[k \in 1..LongLen |-> k - 1]>>}

LongInitials == [1..(2 * LongLen + 1) -> LongSymbols]

\* the arguments of a call; junk is the byte malloc leaves in the cells of a
\* fresh buffer (median[pos] is read at pos = medlen, a cell never written),
\* and the caller did not set the variable medlength points to
InitMedianImprove ==
  /\ pc = "mi_call"
  /\ \/ /\ strings \in MedCollections
        /\ weights \in {w \in MedWeights : Len(w) = Len(strings)}
        /\ initial \in InitialStrings
        /\ failat \in {"none"} \cup (IF Len(strings) <= MaxFailStrings
                                     THEN MedianAllocations(strings, {})
                                     ELSE {})
     \/ /\ strings \in LongCollections
        /\ weights = <<1>>
        /\ initial \in LongInitials
        /\ failat = "none"
  /\ medlength = 1000
  /\ junk \in StrayBytes
  /\ str1 = << >> /\ str2 = << >> /\ xcost = 0 /\ dist = 0 /\ udist = 0
  /\ distances = << >> /\ smi = 0 /\ mindist = 0 /\ minidx = 0 /\ median = 0
  /\ medbuf = << >> /\ returned = ""
  /\ medlen = 0 /\ mpos = 0 /\ mrows = << >> /\ minminsum = 0
  /\ MunkresIdle
  /\ CollIdle
  /\ EditIdle
  /\ ScriptIdle

\* stoplen = 2*maxlen + 1
StopLength(strs) == 2 * MaxLength(Len(strs), strs) + 1

\* the function up to the first pass of the loop. The buffer median has the
\* indices -1 .. stoplen - 1 after median++, and the memcpy of a longer s runs
\* over its end: the call may die of it, or go on with the symbols stored in
\* the memory that follows the buffer
ImproveStart ==
  /\ pc = "mi_call"
  /\ \E sl \in {make_symlist(Len(strings), strings, failat)} :
       IF sl.symlist = << >>
       THEN /\ medlength' = 0
            /\ returned' = (IF sl.symlistlen # 0 \/ failat = "empty"
                            THEN "null" ELSE "buffer")
            /\ pc' = "mi_done"
            /\ UNCHANGED <<medbuf, medlen, mpos, mrows, minminsum>>
       ELSE IF failat \in {"rows", "rows[i]", "row", "median"}
       THEN /\ returned' = "null"
            /\ pc' = "mi_done"
            /\ UNCHANGED <<medlength, medbuf, medlen, mpos, mrows, minminsum>>
       ELSE \E first \in {[i \in 0..(Len(strings) - 1) |->
                             [j \in 0..Len(At(strings, i)) |-> j]]} :
              /\ medbuf' = [k \in (-1..(StopLength(strings) - 1))
                                     \cup (0..(Len(initial) - 1))
                              |-> IF k >= 0 /\ k < Len(initial)
                                  THEN At(initial, k) ELSE junk]
              /\ medlen' = Len(initial)
              /\ mpos' = 0
              /\ mrows' = first
              /\ minminsum' = finish_distance_computations(Len(initial),
                                initial, Len(strings), strings, weights, first)
              /\ pc' \in (IF Len(initial) > StopLength(strings)
                          THEN {"mi_overflow", "mi_loop"} ELSE {"mi_loop"})
              /\ UNCHANGED <<medlength, returned>>
  /\ UNCHANGED <<otherThanMedians, initial, failat>>

\* one pass of for (pos = 0; pos <= medlen; ); assert(medlen <= stoplen) ends
\* the program in a build that has assertions
ImproveStep ==
  /\ pc = "mi_loop"
  /\ mpos <= medlen
  /\ \E sl \in {make_symlist(Len(strings), strings, "none")} :
     \E st \in {[median |-> medbuf, medlen |-> medlen, pos |-> mpos,
                 rows |-> mrows, minminsum |-> minminsum]} :
     \E best \in {Perturbation(Len(strings), strings, weights, sl.symlist,
                               sl.symlistlen, st, junk)} :
     \E new \in {Advance(Len(strings), strings, Perform(st, best),
                         best.operation, junk)} :
        /\ medbuf' = new.median
        /\ medlen' = new.medlen
        /\ mpos' = new.pos
        /\ mrows' = new.rows
        /\ minminsum' = new.minminsum
        /\ pc' \in (IF new.medlen > StopLength(strings)
                    THEN {"mi_abort", "mi_loop"} ELSE {"mi_loop"})
  /\ UNCHANGED <<otherThanMedians, initial, failat, medlength, returned>>

\* the clean up and the return of the result
ImproveReturn ==
  /\ pc = "mi_loop"
  /\ mpos > medlen
  /\ IF failat = "result"
     THEN /\ returned' = "null"
          /\ UNCHANGED <<medlength, medbuf>>
     ELSE /\ returned' = "buffer"
          /\ medlength' = medlen
          /\ medbuf' = Mid(medbuf, 0, medlen, junk)
  /\ pc' = "mi_done"
  /\ UNCHANGED <<otherThanMedians, initial, failat, medlen, mpos, mrows,
                 minminsum>>

NextMedianImprove == ImproveStart \/ ImproveStep \/ ImproveReturn

SpecMedianImprove == InitMedianImprove /\ [][NextMedianImprove]_vars

\* C17: for every initial string s and every collection with non-negative
\* weights the call of lev_median_improve comes to its return, the string r it
\* returns has a weighted sum of distances to the strings that is at most the
\* one of s, and in every pass of the loop minminsum is the weighted sum of
\* distances of the current median.
C17_ImproveNeverWorse ==
  /\ pc \notin {"mi_overflow", "mi_abort"}
  /\ pc = "mi_loop" =>
       minminsum = SumOfDistancesTo(Mid(medbuf, 0, medlen, junk), strings,
                                    weights)
  /\ (pc = "mi_done" /\ returned = "buffer") =>
       SumOfDistancesTo(medbuf, strings, weights)
         <= SumOfDistancesTo(initial, strings, weights)

\* C28: for every initial string of length len <= 2*maxlen+1 and every
\* collection, after every perturbation step the length of the current median
\* is at most stoplen = 2*maxlen+1 (the assertion after the switch holds), so
\* that an accepted insertion writes inside the buffer median.
C28_MedianStaysInsideItsBuffer ==
  Len(initial) <= StopLength(strings) =>
    /\ pc \notin {"mi_overflow", "mi_abort"}
    /\ pc = "mi_loop" =>
         /\ medlen <= StopLength(strings)
         /\ DOMAIN medbuf = -1..(StopLength(strings) - 1)

(***************************************************************************)
(* lev_quick_median. The doubles of the source are exact here: the votes   *)
(* are kept as multiples of 1/ml, so that they are integers.               *)
(***************************************************************************)
\* sum of weights[i]
TotalWeight(n, wts) ==
  LET s[i \in 0..n] == IF i = 0 THEN 0 ELSE s[i - 1] + At(wts, i - 1)
  IN s[n]

\* the mutant of TargetLength that takes the integer nearest to ml/wl, the
\* smaller one of two: ceil(ml/wl - 1/2)
TargetLength_NearestHalfDown(ml, wl) == (2 * ml + wl - 1) \div (2 * wl)

\* floor(ml/wl + 0.499999): the whole part of ml/wl, and one more when the
\* remainder r has r/wl + 0.499999 >= 1, that is 1000000*r >= 500001*wl or
\* 500000*(2*r - wl) >= wl; the last form keeps the products of weights of
\* a million in the range of the integers
TargetLength(ml, wl) ==
  LET r == ml % wl
  IN (ml \div wl)
       + (IF 2 * r - wl >= (wl + 499999) \div 500000 THEN 1 ELSE 0)

\* the votes for the symbol j of the median, ml times symset after the
\* strings 0 .. n - 1 voted in the pass j. An index outside the string i
\* reads the byte uninit[i] that the memory holds next to that string (each
\* string lies in its own place; the share of stri[iend-1] is 0 where the
\* index is outside). Before a pass the code clears
\* the symbols of symlist only (symlistlen < 32), so the votes a stray byte
\* got in the passes before stay in symset.
QuickVotes(n, strs, wts, ml, j, bytes, uninit) ==
  LET Add(symset, c, w) == [symset EXCEPT ![c] = @ + w]
      Vote(symset, i, weighti, lengthi, pass) ==
        LET stri == At(strs, i)
            Read(k) == IF k >= 0 /\ k < lengthi THEN At(stri, k)
                       ELSE At(uninit, i)
            Inner(istart, iend) ==
              LET v[k \in istart..iend] ==
                    IF k = istart \/ k >= iend THEN symset
                    ELSE Add(v[k - 1], Read(k), weighti * ml)
              IN IF iend > istart THEN v[iend - 1] ELSE symset
            start == lengthi * pass
            end == start + lengthi
            istart == start \div ml
            ceiled == (end + ml - 1) \div ml
            iend == IF ceiled > lengthi THEN lengthi ELSE ceiled
        IN Add(Add(Inner(istart, iend),
                   Read(istart), weighti * ((1 + istart) * ml - start)),
               Read(iend - 1), 0 - weighti * (iend * ml - end))
      present == UNION {{At(At(strs, i), k) : k \in 0..(Len(At(strs, i)) - 1)}
                        : i \in 0..(n - 1)}
      Cleared(symset) ==
        [c \in bytes |-> IF Cardinality(present) < 32 /\ c \notin present
                         THEN symset[c] ELSE 0]
      table[pass \in 0..j] ==
        LET first == IF pass = 0 THEN [c \in bytes |-> 0]
                     ELSE Cleared(table[pass - 1])
            voted[i \in 0..n] ==
              IF i = 0 THEN first
              ELSE Vote(voted[i - 1], i - 1, At(wts, i - 1),
                        Len(At(strs, i - 1)), pass)
        IN voted[n]
  IN table[j]

\* the subscripts of the voting for the symbol j of a median of ml symbols:
\* the pairs i, k of every stri[k] the loop over the strings may read, stri[k]
\* for istart < k < iend, stri[istart] and stri[iend-1]; iend - 1 of
\* iend = 0 is the size_t before 0, written -1. Where lengthi / ml is a
\* rounded double, the double start of a whole start may lie below it
\* and the double end of a whole end above it: floor then gives istart - 1,
\* and ceil iend + 1 cut to lengthi.
QuickReads(n, strs, ml, j) ==
  UNION {LET lengthi == Len(At(strs, i))
             start == lengthi * j
             end == start + lengthi
             istart == start \div ml
             ceiled == (end + ml - 1) \div ml
             iend == IF ceiled > lengthi THEN lengthi ELSE ceiled
             rounded == lengthi # 0
                          /\ ~(\E e \in 0..30 : ml = GCD(lengthi, ml) * 2^e)
             lower == IF rounded /\ start % ml = 0 /\ istart > 0
                      THEN {istart - 1} ELSE {}
             upper == IF rounded /\ end % ml = 0 /\ iend < lengthi
                      THEN {iend} ELSE {}
         IN {[i |-> i, k |-> k] :
               k \in ((istart + 1)..(iend - 1)) \cup {istart, iend - 1}
                       \cup lower \cup upper} :
         i \in 0..(n - 1)}

\* lev_quick_median(n, lengths, strings, weights, medlength) with the
\* allocation named by fail failing; prior is what the caller had in
\* *medlength; "empty" is the calloc(1, 1) of the empty result; uninit[i] is
\* the byte next to the string i. The value is
\* the set of the outcomes. Elected is k = symlist[0]; for (i = 1;
\* i < symlistlen; i++): the first symbol with the most votes. The model
\* counts the votes exactly and the code in doubles: lengthi / ml is rounded
\* unless ml / gcd(lengthi, ml) is a power of two, and then the shares
\* of stri[istart] and stri[iend-1] are rounded too (floor and ceil may move
\* istart down and iend up by one where start or end is a whole number), so
\* that of two symbols with equal votes, one of them with a rounded share,
\* either may have the larger double.
lev_quick_median(n, strs, wts, fail, prior, uninit) ==
  LET wl == TotalWeight(n, wts)
      len == TargetLength(WeightedLength(n, strs, wts), wl)
      sl == make_symlist(n, strs, fail)
      empty == IF fail = "empty" THEN "null" ELSE "buffer"
      Exact(lengthi) ==
        lengthi = 0 \/ \E e \in 0..30 : len = GCD(lengthi, len) * 2^e
      Rounded(j) ==
        UNION {LET stri == At(strs, i)
                   lengthi == Len(stri)
                   start == lengthi * j
                   end == start + lengthi
                   istart == start \div len
                   ceiled == (end + len - 1) \div len
                   iend == IF ceiled > lengthi THEN lengthi ELSE ceiled
                   at == {istart, iend - 1}
                           \cup (IF start % len = 0 THEN {istart - 1} ELSE {})
                           \cup (IF end % len = 0 THEN {iend} ELSE {})
               IN IF Exact(lengthi) \/ At(wts, i) = 0 THEN {}
                  ELSE {At(stri, k) : k \in at \cap (0..(lengthi - 1))} :
               i \in 0..(n - 1)}
      Elected(symset, rounded, symlist, symlistlen) ==
        LET After(k, s) ==
              IF symset[s] > symset[k] THEN {s}
              ELSE IF symset[s] = symset[k] /\ (s \in rounded \/ k \in rounded)
              THEN {s, k}
              ELSE {k}
            ks[i \in 0..(symlistlen - 1)] ==
              IF i = 0 THEN {symlist[0]}
              ELSE UNION {After(k, symlist[i]) : k \in ks[i - 1]}
        IN ks[symlistlen - 1]
      May(j) == Elected(QuickVotes(n, strs, wts, len, j,
                                   Symbols \cup {At(uninit, i) : i \in 0..(n - 1)},
                                   uninit),
                        Rounded(j), sl.symlist, sl.symlistlen)
  IN IF wl = 0
     THEN {[returned |-> empty, medlength |-> prior, result |-> << >>]}
     ELSE IF len = 0
     THEN {[returned |-> empty, medlength |-> 0, result |-> << >>]}
     ELSE IF fail \in {"median", "symset"} \/ sl.symlist = << >>
     THEN {[returned |-> "null", medlength |-> len, result |-> << >>]}
     ELSE {[returned |-> "buffer", medlength |-> len, result |-> r] :
             r \in {f \in [1..len -> UNION {May(j) : j \in 0..(len - 1)}] :
                      \A j \in 1..len : f[j] \in May(j - 1)}}

(***************************************************************************)
(* Specification SpecQuickMedian: one call of lev_quick_median             *)
(***************************************************************************)
\* weights of two strings whose mean length lies within a millionth of a half
HeavyWeight == 1000000

HeavyWeights == {<<HeavyWeight + 1, HeavyWeight - 1>>,
                 <<HeavyWeight, HeavyWeight>>,
                 <<HeavyWeight - 1, HeavyWeight + 1>>}

\* the arguments of a call; junk holds for each string of length zero the
\* byte a read outside it finds (no read leaves the other strings)
InitQuickMedian ==
  /\ pc = "qm_call"
  /\ strings \in MedCollections
  /\ weights \in {w \in MedWeights \cup HeavyWeights : Len(w) = Len(strings)}
  /\ failat \in {"none"} \cup (IF Len(strings) <= MaxFailStrings
                               THEN {"empty", "median", "symset", "symlist"}
                               ELSE {})
  /\ medlength \in CallerLengths
  /\ junk \in {s \in [1..Len(strings) -> StrayBytes] :
                 \A i \in 1..Len(strings) : strings[i] # << >> => s[i] = 0}
  /\ str1 = << >> /\ str2 = << >> /\ xcost = 0 /\ dist = 0 /\ udist = 0
  /\ distances = << >> /\ smi = 0 /\ mindist = 0 /\ minidx = 0 /\ median = 0
  /\ initial = << >> /\ medbuf = << >> /\ returned = ""
  /\ medlen = 0 /\ mpos = 0 /\ mrows = << >> /\ minminsum = 0
  /\ MunkresIdle
  /\ CollIdle
  /\ EditIdle
  /\ ScriptIdle

\* median = lev_quick_median(n, lengths, strings, weights, &medlength)
\* A call that votes reads stri[istart] and stri[iend-1] of every string; a
\* read outside the string finds the byte junk holds where that memory can
\* be read and ends the process where it cannot, *medlength being stored
\* already.
QuickMedian ==
  /\ pc = "qm_call"
  /\ \E r \in lev_quick_median(Len(strings), strings, weights, failat,
                               medlength, junk) :
        \/ /\ medbuf' = r.result
           /\ medlength' = r.medlength
           /\ returned' = r.returned
           /\ pc' = "qm_done"
        \/ /\ TotalWeight(Len(strings), weights) > 0
           /\ r.returned = "buffer" /\ r.medlength >= 1
           /\ \E j \in 0..(r.medlength - 1) :
                \E at \in QuickReads(Len(strings), strings, r.medlength, j) :
                  at.k < 0 \/ at.k >= Len(At(strings, at.i))
           /\ medlength' = r.medlength
           /\ pc' = "qm_crash"
           /\ UNCHANGED <<medbuf, returned>>
  /\ UNCHANGED <<otherThanMedians, initial, failat, medlen, mpos, mrows,
                 minminsum>>

NextQuickMedian == QuickMedian

SpecQuickMedian == InitQuickMedian /\ [][NextQuickMedian]_vars

\* C18 as stated: for every input with positive total weight the value
\* lev_quick_median stores in *medlength is the weighted mean of the lengths
\* rounded half up, that is floor(mean + 1/2): a mean with a fractional part
\* of exactly 0.5 gives the next larger integer.
C18_LengthRoundsHalfUp ==
  (pc = "qm_done" /\ TotalWeight(Len(strings), weights) > 0) =>
    LET ml == WeightedLength(Len(strings), strings, weights)
        wl == TotalWeight(Len(strings), weights)
    IN /\ 2 * wl * medlength <= 2 * ml + wl
       /\ 2 * ml + wl < 2 * wl * (medlength + 1)

\* C18, amended: for every input with positive total weight the value m
\* stored in *medlength is floor(mean + 0.499999), mean being the weighted
\* mean ml/wl of the lengths: m - 0.499999 <= mean < m + 0.500001, so that a
\* mean with a fractional part from 0.5 to below 0.500001 gives the next
\* smaller integer. With gap = ml - m*wl the two bounds are
\* 500000*(2*gap + wl) >= wl and 500000*(2*gap - wl) < wl, and least is the
\* least d with 500000*d >= wl.
C18_LengthIsFloorOfShiftedMean ==
  (pc = "qm_done" /\ TotalWeight(Len(strings), weights) > 0) =>
    LET ml == WeightedLength(Len(strings), strings, weights)
        wl == TotalWeight(Len(strings), weights)
        gap == ml - medlength * wl
        least == (wl + 499999) \div 500000
    IN /\ 2 * gap + wl >= least
       /\ 2 * gap - wl < least

\* a call of two strings whose mean length is above 1.5, with 1 stored
C18_Witness ==
  /\ pc = "qm_done" /\ returned = "buffer" /\ medlength = 1
  /\ Len(strings) = 2
  /\ 2 * WeightedLength(Len(strings), strings, weights)
       > 3 * TotalWeight(Len(strings), weights)

\* C19: when the total weight is zero lev_quick_median returns the empty
\* result, a buffer that is not null and has no symbols, and stores 0 in
\* *medlength, as it does when the target length is 0.
C19_ZeroWeightStoresZero ==
  (/\ pc = "qm_done"
   /\ TotalWeight(Len(strings), weights) = 0
   /\ failat = "none") =>
    /\ returned = "buffer"
    /\ medbuf = << >>
    /\ medlength = 0

\* C29: in lev_quick_median, for every input with positive total weight and
\* a target length of at least 1, the collections with strings of length
\* zero included, every symbol strings[i][k] the voting reads has
\* 0 <= k < lengths[i].
C29_VotingReadsInsideTheStrings ==
  (/\ pc = "qm_done"
   /\ TotalWeight(Len(strings), weights) > 0
   /\ medlength >= 1
   /\ returned = "buffer") =>
    \A j \in 0..(medlength - 1) :
      \A r \in QuickReads(Len(strings), strings, medlength, j) :
        r.k >= 0 /\ r.k < Len(At(strings, r.i))

\* the part of C29 that holds: the reads in the strings of positive length
\* stay inside them
QuickReadsOfNonEmptyStayInside ==
  (/\ pc = "qm_done"
   /\ TotalWeight(Len(strings), weights) > 0
   /\ medlength >= 1
   /\ returned = "buffer") =>
    \A j \in 0..(medlength - 1) :
      \A r \in QuickReads(Len(strings), strings, medlength, j) :
        Len(At(strings, r.i)) > 0 => (r.k >= 0 /\ r.k < Len(At(strings, r.i)))

\* C20: when an allocation fails inside a routine that returns a buffer and
\* stores its length through a pointer, here lev_greedy_median, the routine
\* returns null and stores (size_t)-1, here -1, in *medlength.
C20_FailureStoresSentinel ==
  (pc = "gm_done" /\ failat # "none") =>
    /\ returned = "null"
    /\ medlength = -1

(***************************************************************************)
(* Specification SpecOpcodeCheck: lev_opcodes_check_errors on any list of  *)
(* block operations a caller may pass, the well-formed and the ill-formed. *)
(***************************************************************************)
\* most blocks of a list, and the largest position a block or a length holds
MaxBlocks == 3
MaxFreeBlocks == 2
MaxBlockPos == 1

\* the block types a caller may store: the four edit types and LEV_EDIT_LAST
BlockTypes == {LEV_EDIT_KEEP, LEV_EDIT_REPLACE, LEV_EDIT_INSERT, LEV_EDIT_DELETE,
               LEV_EDIT_DELETE + 1}

AnyBlocks ==
  {OpCode(ty, sb, se, db, de) :
     ty \in BlockTypes, sb \in 0..MaxBlockPos, se \in 0..MaxBlockPos,
     db \in 0..MaxBlockPos, de \in 0..MaxBlockPos}

\* the lists handed to the call: every list of at most MaxFreeBlocks blocks,
\* and every longer list of blocks of the span-preserving types
BlockLists ==
  SeqsUpTo(AnyBlocks, MaxFreeBlocks)
    \cup SeqsUpTo({b \in AnyBlocks : b.type \in {LEV_EDIT_KEEP, LEV_EDIT_REPLACE}},
                  MaxBlocks)

\* the arguments of a call: len1, len2 (the lengths of str1 and str2), nb, bops
InitOpcodeCheck ==
  /\ pc = "en_done"
  /\ \E len1 \in 0..MaxBlockPos, len2 \in 0..MaxBlockPos :
       /\ str1 = [k \in 1..len1 |-> 0]
       /\ str2 = [k \in 1..len2 |-> 0]
  /\ \E list \in BlockLists :
       /\ bops = Array(list)
       /\ nb = Len(list)
  /\ xcost = 0 /\ junk = 0 /\ dist = 0 /\ udist = 0
  /\ MedianIdle
  /\ MunkresIdle
  /\ CollIdle
  /\ EditIdle
  /\ rops = << >> /\ norm = << >> /\ operr = 0
  /\ inv = << >> /\ binv = << >> /\ mblocks = << >> /\ bmblocks = << >>
  /\ sub = << >> /\ rem = << >> /\ nrem = 0 /\ subrun = << >>
  /\ GenMedianIdle

SpecOpcodeCheck == InitOpcodeCheck /\ [][OpcodesCheckErrors]_vars

\* C23: lev_opcodes_check_errors returns OK only for lists in which every
\* block has sbeg <= send <= len1 and dbeg <= dend <= len2, has the span shape
\* of its type, starts where the previous block ends, and the list covers from
\* (0, 0) to (len1, len2); a list with a block whose end precedes its begin
\* is rejected.
C23_AcceptedListsAreForwardCovers ==
  (pc = "ck_done" /\ operr = LevEditOpError.OK) =>
     /\ nb > 0
     /\ bops[0].sbeg = 0 /\ bops[0].dbeg = 0
     /\ bops[nb - 1].send = Len(str1) /\ bops[nb - 1].dend = Len(str2)
     /\ \A k \in 1..(nb - 1) :
          bops[k].sbeg = bops[k - 1].send /\ bops[k].dbeg = bops[k - 1].dend
     /\ \A k \in 0..(nb - 1) :
          /\ bops[k].sbeg <= bops[k].send /\ bops[k].send <= Len(str1)
          /\ bops[k].dbeg <= bops[k].dend /\ bops[k].dend <= Len(str2)
          /\ bops[k].type \in {LEV_EDIT_KEEP, LEV_EDIT_REPLACE} =>
               bops[k].send - bops[k].sbeg = bops[k].dend - bops[k].dbeg
               /\ bops[k].dend > bops[k].dbeg
          /\ bops[k].type = LEV_EDIT_INSERT =>
               bops[k].send = bops[k].sbeg /\ bops[k].dend > bops[k].dbeg
          /\ bops[k].type = LEV_EDIT_DELETE =>
               bops[k].send > bops[k].sbeg /\ bops[k].dend = bops[k].dbeg

(***************************************************************************)
(* Specification SpecAnyScripts: the routines on any array of edit         *)
(* operations a caller may pass.  A run is one call of                     *)
(* lev_editops_subtract, sub being a subsequence of ops or not, or a call  *)
(* of lev_editops_check_errors followed, for an accepted array, by         *)
(* lev_editops_to_opcodes.                                                 *)
(***************************************************************************)
\* most operations of an array, and the largest position an operation holds
MaxSubOps == 2
MaxSubPos == 1

AnyOps ==
  {EditOp(ty, sp, dp) :
     ty \in {LEV_EDIT_KEEP, LEV_EDIT_REPLACE, LEV_EDIT_INSERT, LEV_EDIT_DELETE},
     sp \in 0..MaxSubPos, dp \in 0..MaxSubPos}

\* a string of len symbols, for the calls that take only the lengths
Blank(len) == [k \in 1..len |-> 0]

\* the arguments of a call: n, ops with ns, sub for the subtraction, and with
\* len1, len2 (the lengths of str1 and str2) for the check
InitAnyScripts ==
  /\ pc \in {"pa_done", "ec_call"}
  /\ \E list \in SeqsUpTo(AnyOps, MaxSubOps) :
       ops = Array(list) /\ nops = Len(list)
  /\ \E list \in (IF pc = "pa_done" THEN SeqsUpTo(AnyOps, MaxSubOps)
                   ELSE {<< >>}) : sub = Array(list)
  /\ \E len1 \in (IF pc = "ec_call" THEN 0..(MaxSubPos + 1) ELSE {0}) :
       str1 = Blank(len1)
  /\ \E len2 \in (IF pc = "ec_call" THEN 0..(MaxSubPos + 1) ELSE {0}) :
       str2 = Blank(len2)
  /\ xcost = 0 /\ junk = 0 /\ dist = 0 /\ udist = 0
  /\ MedianIdle
  /\ MunkresIdle
  /\ CollIdle
  /\ elen1 = 0 /\ elen2 = 0 /\ eoff = 0 /\ matrix = << >>
  /\ bti = 0 /\ btj = 0 /\ dir = 0 /\ pos = 0 /\ applied = << >>
  /\ bops = << >> /\ nb = 0 /\ rops = << >> /\ norm = << >> /\ operr = 0
  /\ inv = << >> /\ binv = << >> /\ mblocks = << >> /\ bmblocks = << >>
  /\ rem = << >> /\ nrem = 0 /\ subrun = << >>
  /\ GenMedianIdle

SpecAnyScripts ==
  InitAnyScripts
    /\ [][EditopsSubtract \/ EditopsCheckErrors \/ EditopsToOpcodes]_vars

\* sub[i .. ns-1] can be matched, in order, within ops[j .. n-1]
RECURSIVE MatchesInOrder(_, _, _, _, _, _)
MatchesInOrder(script, n, part, ns, i, j) ==
  IF i >= ns THEN TRUE
  ELSE IF j >= n THEN FALSE
  ELSE IF script[j] = part[i] THEN MatchesInOrder(script, n, part, ns, i + 1, j + 1)
  ELSE MatchesInOrder(script, n, part, ns, i, j + 1)

NonKeepCount(script) ==
  Cardinality({k \in DOMAIN script : script[k].type # LEV_EDIT_KEEP})

\* C24: lev_editops_subtract fails, that is returns NULL with *nrem ==
\* (size_t)-1, whenever sub has more operations that are not keep than ops,
\* and whenever some element of sub cannot be matched (same type, spos, dpos)
\* in order within ops.
C24_UnmatchedSubFails ==
  (/\ pc \in {"es_done", "es_crash"}
   /\ \/ NonKeepCount(sub) > NonKeepCount(ops)
      \/ ~MatchesInOrder(ops, nops, sub, Cardinality(DOMAIN sub), 0, 0))
  => (pc = "es_done" /\ rem = << >> /\ nrem = -1)

\* C25: for every ops of length n and every sub of length ns, subsequence or
\* not, the write index nn into the remainder stays below its allocated size
\* nr (no write at all when nr == 0) and ops[j] is only read for j < n.
C25_SubtractStaysInsideItsArrays ==
  pc \in {"es_done", "es_crash"} => (~subrun.overrun /\ ~subrun.readpast)

\* C26: for every array of edit operations that lev_editops_check_errors
\* accepts for (len1, len2), partial scripts included, lev_editops_to_opcodes
\* runs with both of its assertions true: len1 - spos == len2 - dpos at the
\* trailing gap, and the number of blocks written equals nbl.
C26_AcceptedScriptsPassTheAssertions ==
  pc # "oc_abort"

====
